---- MODULE Spec2Model ----
(***************************************************************************)
(* LivingRental Alert: the VPS control plane.                              *)
(*                                                                         *)
(* The model covers the preflight scan and its safe-placement planner      *)
(* (server/vps/preflight.ts), the deployment executor and health prober    *)
(* (server/vps/deploy.ts) and the HTTP handlers that drive them and own    *)
(* the two process-wide slots lastPreflightResult and deploymentStatus.    *)
(*                                                                         *)
(* An HTTP handler is an async function: it runs atomically from one       *)
(* await to the next and handlers of different requests interleave at      *)
(* their awaits.  Every await of the source is one step of the model.      *)
(***************************************************************************)
EXTENDS Integers, Sequences, FiniteSets, TLC

VARIABLES
    env,                  \* process.env as the last request found it
    received,             \* number of requests the server has received
    lastPreflightResult,  \* Null or Some(PreflightResult)
    deploymentStatus,     \* the DeploymentStatus record
    host,                 \* the remote host: files, secrets file, running stack
    openSessions,         \* per kind of operation: SSH sessions now open
    req,                  \* per request slot: the handler's position and locals
    response,             \* the HTTP response the last step sent, if it sent one
    caller,               \* "any", or "serial": one request at a time
    planFacts,            \* planner harness: the facts a scan gathered
    planResult,           \* planner harness: Null or Some(PreflightResult)
    probeInput,           \* probe harness: the ports and the four response texts
    probeResult,          \* probe harness: Null or Some(services of both probers)
    parseInput,           \* parser harness: the listening-ports table as made up
    parseResult,          \* parser harness: Null or Some(entries)
    deployedPorts,        \* Null or Some(ports) of the last deploy that succeeded
    clock,                \* Date.now(), in milliseconds
    lastGitHubSync,       \* the rate limiter's timestamp, 0 before the first sync
    lastAdmitted          \* Null or Some(time the rate limiter last let a sync pass)

vars == <<env, received, lastPreflightResult, deploymentStatus, host, openSessions, req,
          response, caller, planFacts, planResult, probeInput, probeResult,
          parseInput, parseResult, deployedPorts,
          clock, lastGitHubSync, lastAdmitted>>

serverVars == <<env, received, lastPreflightResult, deploymentStatus, host, openSessions, req,
                response>>

\* the caller and the harnesses
harnessVars == <<caller, planFacts, planResult, probeInput, probeResult,
                 parseInput, parseResult>>

\* the rate limiter of the GitHub sync
syncVars == <<clock, lastGitHubSync, lastAdmitted>>

idleVars == <<harnessVars, syncVars>>

\* what only the end of a successful deploy changes
restVars == <<idleVars, deployedPorts>>

----------------------------------------------------------------------------
(* Optional values: null / undefined of the source. *)

Null == <<>>

\* new Date().toISOString(): the clock of the model advances by one with
\* every request the server receives
now == received

Some(x) == <<x>>

Val(o) == o[1]

----------------------------------------------------------------------------
(* Bounds of the model. *)

\* request slots: handlers that can be between two awaits at the same time
MaxReq == 2

\* sessions the host's sshd accepts at the same time; a connect beyond it fails
MaxSessions == 3

\* requests the server receives in one behaviour
MaxReceived == 4

----------------------------------------------------------------------------
(* The placement planner: preflight.ts, runPreflightScan and findSafePort. *)

Services == {"postgres", "n8n", "ntfy", "fetcher"}

\* the first arguments of the four findSafePort calls
PreferredPort == [postgres |-> 5432, n8n |-> 5678, ntfy |-> 8080, fetcher |-> 3001]

\* for (p = preferred + 1; p < preferred + 100; p++)
ProbeSpan == 100

\* return preferred + 1000
FallbackOffset == 1000

RECURSIVE probeFrom(_, _, _)

\* the loop returns its first candidate without looking it up in usedPorts
probeFromUnchecked(p, preferred, usedPorts) ==
    IF p < preferred + ProbeSpan THEN p ELSE preferred + FallbackOffset

\* the loop runs while p <= preferred + 100
probeFromOneMore(p, preferred, usedPorts) ==
    LET free == { q \in p..(preferred + ProbeSpan) : q \notin usedPorts }
    IN  IF free = {} THEN preferred + FallbackOffset
        ELSE CHOOSE q \in free : \A x \in free : q <= x

\* the for loop of findSafePort, entered at p
probeFrom(p, preferred, usedPorts) ==
    IF p < preferred + ProbeSpan
    THEN IF p \notin usedPorts THEN p ELSE probeFrom(p + 1, preferred, usedPorts)
    ELSE preferred + FallbackOffset

\* function findSafePort(preferred, usedPorts)
findSafePort(preferred, usedPorts) ==
    IF preferred \notin usedPorts THEN preferred
    ELSE probeFrom(preferred + 1, preferred, usedPorts)

\* the fetcher line repeats the preferred port of the ntfy line
safePortsCopyPaste(usedPorts) ==
    [postgres |-> findSafePort(5432, usedPorts),
     n8n      |-> findSafePort(5678, usedPorts),
     ntfy     |-> findSafePort(8080, usedPorts),
     fetcher  |-> findSafePort(8080, usedPorts)]

\* const safePorts = { postgres: findSafePort(5432, usedPorts), ... }
safePorts(usedPorts) ==
    [s \in Services |-> findSafePort(PreferredPort[s], usedPorts)]

----------------------------------------------------------------------------
(* Command outputs of the scan.  The output of a proxy probe is the tuple   *)
(* of its words and white-space characters; a container name is the tuple  *)
(* of its parts.                                                           *)

WhiteSpace == {" ", "\n"}

RECURSIVE trimStart(_)
trimStart(text) ==
    IF text # <<>> /\ Head(text) \in WhiteSpace THEN trimStart(Tail(text)) ELSE text

RECURSIVE trimEnd(_)
trimEnd(text) ==
    IF text # <<>> /\ text[Len(text)] \in WhiteSpace
    THEN trimEnd(SubSeq(text, 1, Len(text) - 1))
    ELSE text

\* String.prototype.trim
trim(text) == trimEnd(trimStart(text))

\* a string as a condition: the empty string alone is falsy
truthy(text) == text # <<>>

\* the outputs are tested without trim()
detectProxyUntrimmed(nginxCheck, caddyCheck, traefikCheck) ==
    IF truthy(nginxCheck) THEN "nginx"
    ELSE IF truthy(caddyCheck) THEN "caddy"
    ELSE IF truthy(traefikCheck) THEN "traefik"
    ELSE "none"

\* if (nginxCheck.trim()) ... else if (caddyCheck.trim()) ... else if (traefikCheck.trim())
detectProxy(nginxCheck, caddyCheck, traefikCheck) ==
    IF truthy(trim(nginxCheck)) THEN "nginx"
    ELSE IF truthy(trim(caddyCheck)) THEN "caddy"
    ELSE IF truthy(trim(traefikCheck)) THEN "traefik"
    ELSE "none"

\* proxyConfigPath, assigned with proxyType
proxyConfigPath(proxyType) ==
    CASE proxyType = "nginx" -> Some("/etc/nginx/sites-available/")
      [] proxyType = "caddy" -> Some("/etc/caddy/Caddyfile")
      [] OTHER               -> Null

\* String.prototype.toLowerCase on the parts of a name
LowerCase ==
    [p \in {"N8N", "Postgres", "NTFY", "Fetcher"} |->
        CASE p = "N8N"      -> "n8n"
          [] p = "Postgres" -> "postgres"
          [] p = "NTFY"     -> "ntfy"
          [] p = "Fetcher"  -> "fetcher"]

toLowerCase(name) ==
    [i \in DOMAIN name |->
        IF name[i] \in DOMAIN LowerCase THEN LowerCase[name[i]] ELSE name[i]]

\* n.includes(literal) for a container name: a literal occurs in a name as
\* one of its parts, or inside the part "postgresql"
nameIncludes(name, literal) ==
    \E i \in DOMAIN name :
        \/ name[i] = literal
        \/ name[i] = "postgresql" /\ literal = "postgres"

\* containers stays [] unless dockerInstalled
containers(facts) == IF facts.dockerInstalled THEN facts.containerNames ELSE {}

\* networks stays [] unless dockerInstalled
networks(facts) == IF facts.dockerInstalled THEN facts.networkNames ELSE {}

\* volumes stays [] unless dockerInstalled
volumes(facts) == IF facts.dockerInstalled THEN facts.volumeNames ELSE {}

\* const existingServices = { n8n: containerNames.some(...), ... }
existingServices(names) ==
    LET containerNames == { toLowerCase(n) : n \in names }
    IN  [n8n        |-> \E n \in containerNames : nameIncludes(n, "n8n"),
         postgres   |-> \E n \in containerNames :
                            nameIncludes(n, "postgres") \/ nameIncludes(n, "postgresql"),
         ntfy       |-> \E n \in containerNames : nameIncludes(n, "ntfy"),
         playwright |-> \E n \in containerNames :
                            nameIncludes(n, "playwright") \/ nameIncludes(n, "fetcher")]

\* the four messages of the warnings.push calls, in the order of the calls
WarningOrder ==
    << <<"Port 80 is in use - will bind to localhost only">>,
       <<"Port 443 is in use - will bind to localhost only">>,
       <<"n8n already exists - will use different container name">>,
       <<"Postgres already exists - consider reusing">> >>

\* the container warnings are pushed before the port warnings
warningsContainersFirst(usedPorts, existing) ==
    (IF existing.n8n THEN <<WarningOrder[3]>> ELSE <<>>)
    \o (IF existing.postgres THEN <<WarningOrder[4]>> ELSE <<>>)
    \o (IF 80 \in usedPorts THEN <<WarningOrder[1]>> ELSE <<>>)
    \o (IF 443 \in usedPorts THEN <<WarningOrder[2]>> ELSE <<>>)

\* const warnings = []; if (port80Used) warnings.push(...); ...
warnings(usedPorts, existing) ==
    (IF 80 \in usedPorts THEN <<WarningOrder[1]>> ELSE <<>>)
    \o (IF 443 \in usedPorts THEN <<WarningOrder[2]>> ELSE <<>>)
    \o (IF existing.n8n THEN <<WarningOrder[3]>> ELSE <<>>)
    \o (IF existing.postgres THEN <<WarningOrder[4]>> ELSE <<>>)

(* The two templates.  A snippet is the tuple of its lines and a line the  *)
(* tuple of its words; an interpolated port is a word of its own.  The     *)
(* literals "proxy_pass" and "reverse_proxy" occur in the templates only   *)
(* as whole words.                                                         *)

\* generateNginxConfig: the template literal, line by line
generateNginxConfig(ports) ==
    << <<"#", "LivingRental", "Alert", "-", "Nginx", "reverse", "proxy", "configuration">>,
       <<"#", "Add", "this", "to", "/etc/nginx/sites-available/rentalmonitor.conf">>,
       <<"#", "Then:", "sudo", "ln", "-s", "/etc/nginx/sites-available/rentalmonitor.conf", "/etc/nginx/sites-enabled/">>,
       <<"#", "And:", "sudo", "nginx", "-t", "&&", "sudo", "systemctl", "reload", "nginx">>,
       <<>>,
       <<"#", "Main", "rental", "alert", "app", "-", "rentalert.sellsiren.com">>,
       <<"server", "{">>,
       <<"listen", "80;">>,
       <<"server_name", "rentalert.sellsiren.com;">>,
       <<>>,
       <<"#", "n8n", "workflow", "automation">>,
       <<"location", "/n8n/", "{">>,
       <<"proxy_pass", "http://127.0.0.1:", ToString(ports.n8n), "/;">>,
       <<"proxy_http_version", "1.1;">>,
       <<"proxy_set_header", "Upgrade", "$http_upgrade;">>,
       <<"proxy_set_header", "Connection", "\"upgrade\";">>,
       <<"proxy_set_header", "Host", "$host;">>,
       <<"proxy_set_header", "X-Real-IP", "$remote_addr;">>,
       <<"proxy_set_header", "X-Forwarded-For", "$proxy_add_x_forwarded_for;">>,
       <<"proxy_set_header", "X-Forwarded-Proto", "$scheme;">>,
       <<"}">>,
       <<>>,
       <<"#", "ntfy", "push", "notifications">>,
       <<"location", "/ntfy/", "{">>,
       <<"proxy_pass", "http://127.0.0.1:", ToString(ports.ntfy), "/;">>,
       <<"proxy_http_version", "1.1;">>,
       <<"proxy_set_header", "Upgrade", "$http_upgrade;">>,
       <<"proxy_set_header", "Connection", "\"upgrade\";">>,
       <<"proxy_set_header", "Host", "$host;">>,
       <<"proxy_set_header", "X-Real-IP", "$remote_addr;">>,
       <<"}">>,
       <<>>,
       <<"#", "Fetcher", "microservice", "(protect", "with", "secret", "header)">>,
       <<"location", "/fetcher/", "{">>,
       <<"proxy_pass", "http://127.0.0.1:", ToString(ports.fetcher), "/;">>,
       <<"proxy_set_header", "Host", "$host;">>,
       <<"proxy_set_header", "X-Real-IP", "$remote_addr;">>,
       <<"}">>,
       <<"}">>,
       <<>>,
       <<"#", "Alternative:", "Subdomain", "configuration", "(requires", "DNS", "A", "records", "for", "each", "subdomain)">>,
       <<"#", "n8n.sellsiren.com,", "ntfy.sellsiren.com,", "fetcher.sellsiren.com">>,
       <<>>,
       <<"#", "server", "{">>,
       <<"#", "listen", "80;">>,
       <<"#", "server_name", "n8n.sellsiren.com;">>,
       <<"#", "location", "/", "{">>,
       <<"#", "proxy_pass", "http://127.0.0.1:", ToString(ports.n8n), ";">>,
       <<"#", "proxy_http_version", "1.1;">>,
       <<"#", "proxy_set_header", "Upgrade", "$http_upgrade;">>,
       <<"#", "proxy_set_header", "Connection", "\"upgrade\";">>,
       <<"#", "proxy_set_header", "Host", "$host;">>,
       <<"#", "}">>,
       <<"#", "}">>,
       <<>>,
       <<"#", "server", "{">>,
       <<"#", "listen", "80;">>,
       <<"#", "server_name", "ntfy.sellsiren.com;">>,
       <<"#", "location", "/", "{">>,
       <<"#", "proxy_pass", "http://127.0.0.1:", ToString(ports.ntfy), ";">>,
       <<"#", "proxy_http_version", "1.1;">>,
       <<"#", "proxy_set_header", "Upgrade", "$http_upgrade;">>,
       <<"#", "proxy_set_header", "Connection", "\"upgrade\";">>,
       <<"#", "proxy_set_header", "Host", "$host;">>,
       <<"#", "}">>,
       <<"#", "}">> >>

\* generateCaddyConfig: the template literal, line by line
generateCaddyConfig(ports) ==
    << <<"#", "LivingRental", "Alert", "-", "Caddy", "reverse", "proxy", "configuration">>,
       <<"#", "Add", "this", "to", "your", "Caddyfile">>,
       <<>>,
       <<"rentalert.sellsiren.com", "{">>,
       <<"#", "n8n", "workflow", "automation">>,
       <<"handle_path", "/n8n/*", "{">>,
       <<"reverse_proxy", "127.0.0.1:", ToString(ports.n8n)>>,
       <<"}">>,
       <<>>,
       <<"#", "ntfy", "push", "notifications">>,
       <<"handle_path", "/ntfy/*", "{">>,
       <<"reverse_proxy", "127.0.0.1:", ToString(ports.ntfy)>>,
       <<"}">>,
       <<>>,
       <<"#", "Fetcher", "microservice">>,
       <<"handle_path", "/fetcher/*", "{">>,
       <<"reverse_proxy", "127.0.0.1:", ToString(ports.fetcher)>>,
       <<"}">>,
       <<"}">>,
       <<>>,
       <<"#", "Alternative:", "Subdomain", "configuration", "(requires", "DNS", "A", "records)">>,
       <<"#", "n8n.sellsiren.com", "{">>,
       <<"#", "reverse_proxy", "127.0.0.1:", ToString(ports.n8n)>>,
       <<"#", "}">>,
       <<"#", "ntfy.sellsiren.com", "{">>,
       <<"#", "reverse_proxy", "127.0.0.1:", ToString(ports.ntfy)>>,
       <<"#", "}">> >>

\* the two branches call each other's generator
proxyConfigSnippetSwapped(proxyType, ports) ==
    IF proxyType = "nginx" THEN Some(generateCaddyConfig(ports))
    ELSE IF proxyType = "caddy" THEN Some(generateNginxConfig(ports))
    ELSE Null

\* a snippet is generated for every proxy that is detected
proxyConfigSnippetAnyProxy(proxyType, ports) ==
    IF proxyType = "caddy" THEN Some(generateCaddyConfig(ports))
    ELSE IF proxyType # "none" THEN Some(generateNginxConfig(ports))
    ELSE Null

\* let proxyConfigSnippet: string | undefined; if nginx ... else if caddy ...
proxyConfigSnippet(proxyType, ports) ==
    IF proxyType = "nginx" THEN Some(generateNginxConfig(ports))
    ELSE IF proxyType = "caddy" THEN Some(generateCaddyConfig(ports))
    ELSE Null

\* readyToDeploy also asks for a plan without warnings
safePlanNoWarnings(facts) ==
    LET proxyType == detectProxy(facts.nginxCheck, facts.caddyCheck, facts.traefikCheck)
        ports     == safePorts(facts.ports)
        warned    == warnings(facts.ports, existingServices(containers(facts)))
    IN  [portsToUse         |-> ports,
         reuseExistingProxy |-> proxyType # "none",
         proxyConfigSnippet |-> proxyConfigSnippet(proxyType, ports),
         warnings           |-> warned,
         readyToDeploy      |-> facts.dockerInstalled /\ warned = <<>>]

\* the safePlan member of the scan's return value; facts.ports is the set of
\* port numbers of the parsed listening-ports table (usedPorts)
safePlan(facts) ==
    LET proxyType == detectProxy(facts.nginxCheck, facts.caddyCheck, facts.traefikCheck)
        ports     == safePorts(facts.ports)
    IN  [portsToUse         |-> ports,
         reuseExistingProxy |-> proxyType # "none",
         proxyConfigSnippet |-> proxyConfigSnippet(proxyType, ports),
         warnings           |-> warnings(facts.ports, existingServices(containers(facts))),
         readyToDeploy      |-> facts.dockerInstalled]

\* the value runPreflightScan returns
PreflightResult(facts, timestamp) ==
    LET proxyType == detectProxy(facts.nginxCheck, facts.caddyCheck, facts.traefikCheck)
    IN  [timestamp        |-> timestamp,
         ports            |-> facts.ports,
         docker           |-> [installed  |-> facts.dockerInstalled,
                               containers |-> containers(facts),
                               networks   |-> networks(facts),
                               volumes    |-> volumes(facts)],
         reverseProxy     |-> [detected   |-> proxyType # "none",
                               type       |-> proxyType,
                               configPath |-> proxyConfigPath(proxyType)],
         existingServices |-> existingServices(containers(facts)),
         safePlan         |-> safePlan(facts)]

----------------------------------------------------------------------------
(* parseListeningPorts.  The output of ss or netstat is the tuple of its   *)
(* tokens: a "\n", a " " or a piece of a field; a field is a run of pieces *)
(* without white space between them, and a piece is a ":", a run of digits *)
(* or a run of other characters.                                           *)

\* the largest run of digits the texts of the model hold
MaxDigits == 9999

\* the decimal numerals
Numerals == { ToString(n) : n \in 0..MaxDigits }

\* \d+ matches the whole piece
isDigits(piece) == piece \in Numerals

\* parseInt(digits, 10)
parseInt(digits) == CHOOSE n \in 0..MaxDigits : ToString(n) = digits

RECURSIVE split(_, _)
\* String.prototype.split: the stretches of text between the separators; a
\* separator is one token of the set, or with /\s+/ a run of them
split(text, separators) ==
    IF \A i \in DOMAIN text : text[i] \notin separators THEN <<text>>
    ELSE LET i    == CHOOSE i \in DOMAIN text :
                        /\ text[i] \in separators
                        /\ \A j \in 1..(i - 1) : text[j] \notin separators
             rest == SubSeq(text, i + 1, Len(text))
         IN  <<SubSeq(text, 1, i - 1)>>
             \o split(IF separators = WhiteSpace THEN trimStart(rest) ELSE rest,
                      separators)

\* localAddr.match(/:(\d+)$/): the digits after the last colon, if the field
\* ends with a colon and digits
portMatch(localAddr) ==
    IF /\ Len(localAddr) >= 2
       /\ localAddr[Len(localAddr) - 1] = ":"
       /\ isDigits(localAddr[Len(localAddr)])
    THEN Some(localAddr[Len(localAddr)])
    ELSE Null

\* the body of the loop: the entries the line adds to ports, none or one
parsedLine(line) ==
    LET parts     == split(trim(line), WhiteSpace)
        localAddr == IF truthy(parts[4]) THEN parts[4]
                     ELSE IF Len(parts) >= 5 THEN parts[5] ELSE <<>>
    IN  IF Len(parts) >= 4 /\ truthy(localAddr) /\ portMatch(localAddr) # Null
        THEN << [port     |-> parseInt(Val(portMatch(localAddr))),
                 protocol |-> parts[1],
                 process  |-> parts[Len(parts)],
                 state    |-> "LISTEN"] >>
        ELSE <<>>

RECURSIVE parsedLines(_)
\* for (const line of lines) { ... }
parsedLines(lines) ==
    IF lines = <<>> THEN <<>>
    ELSE parsedLine(Head(lines)) \o parsedLines(Tail(lines))

\* the first line is parsed like every other line
parseListeningPortsKeepHeader(raw) == parsedLines(split(trim(raw), {"\n"}))

\* raw.trim().split("\n").slice(1), and the loop over the lines
parseListeningPorts(raw) == parsedLines(Tail(split(trim(raw), {"\n"})))

----------------------------------------------------------------------------
(* Planner harness: the planner applied to facts drawn from a family of    *)
(* listening-port tables.                                                  *)

\* offsets from a service's preferred port that are busy
BusyPatterns ==
    { {},                                   \* preferred port free
      {0},                                  \* preferred busy, next one free
      {0, 2},                               \* a hole right after the preferred port
      0..(ProbeSpan - 2),                   \* only the last probed port free
      0..(ProbeSpan - 1),                   \* all probed ports busy, fallback free
      0..(ProbeSpan - 1) \cup {FallbackOffset},  \* fallback busy as well
      (0..ProbeSpan) \ {ProbeSpan - 1},     \* last probed free, the one after busy
      {FallbackOffset} }                    \* only the fallback port busy

PortsOf(pattern) ==
    UNION { { PreferredPort[s] + o : o \in pattern[s] } : s \in Services }

\* facts of a host without proxy and containers
PortFacts(ports, dockerInstalled) ==
    [ports |-> ports, dockerInstalled |-> dockerInstalled,
     nginxCheck |-> <<>>, caddyCheck |-> <<>>, traefikCheck |-> <<>>,
     containerNames |-> {}, networkNames |-> {}, volumeNames |-> {}]

PlanFactsFamily ==
    { PortFacts(PortsOf(pattern), d) :
        pattern \in [Services -> BusyPatterns], d \in BOOLEAN }

\* outputs of a proxy probe: empty, white space only, a path or a name
ProbeOutputs == { <<>>, <<" ", "\n">>, <<"/usr/sbin/nginx", "\n">> }

\* names of containers a host may hold besides those of the stack
OtherContainers ==
    { <<"N8N">>, <<"db-", "postgresql">>, <<"web">> }

\* listening-port tables around ports 80 and 443
WebPortSets == { {}, {80}, {443}, {80, 443}, {22, 443, 5432} }

\* the networks of a docker daemon, and a volume of some container
OtherNetworks == {"bridge", "host", "none"}

OtherVolumes == {"web_data"}

\* facts of hosts with proxies, containers and web ports
ScanFactsFamily ==
    { [ports |-> ports, dockerInstalled |-> d,
       nginxCheck |-> n, caddyCheck |-> c, traefikCheck |-> t,
       containerNames |-> names,
       networkNames |-> IF names = {} THEN {} ELSE OtherNetworks,
       volumeNames |-> IF <<"web">> \in names THEN OtherVolumes ELSE {}] :
        ports \in WebPortSets, d \in BOOLEAN,
        n \in ProbeOutputs, c \in ProbeOutputs, t \in ProbeOutputs,
        names \in SUBSET OtherContainers }

----------------------------------------------------------------------------
(* Texts.  A message or a log entry is a tuple of strings, so that a       *)
(* message built from parts (`Error: ${message}`) keeps its parts.         *)

Secrets == <<"VPS_PERSONAL_IP", "VPS_PERSONAL_USER", "VPS_SSH_PRIVATE_KEY">>

AllSecrets == {Secrets[i] : i \in 1..Len(Secrets)}

\* an environment: the set of secrets that are set and non-empty; the complete
\* one and those with one secret missing
Envs == {AllSecrets} \cup {AllSecrets \ {x} : x \in AllSecrets}

RECURSIVE missingFrom(_, _)
\* if (!host) missing.push(...); if (!username) ...; if (!privateKey) ...
missingFrom(i, secrets) ==
    IF i > Len(Secrets) THEN <<>>
    ELSE (IF Secrets[i] \in secrets THEN <<>> ELSE <<Secrets[i]>>) \o missingFrom(i + 1, secrets)

\* the check leaves out the private key
configCompleteNoKey(secrets) ==
    ~(Secrets[1] \notin secrets \/ Secrets[2] \notin secrets)

\* if (!host || !username || !privateKey) throw
configComplete(secrets) ==
    ~(Secrets[1] \notin secrets \/ Secrets[2] \notin secrets \/ Secrets[3] \notin secrets)

\* getSSHConfig: the message of the error it throws when a secret is missing
getSSHConfigError(secrets) == <<"Missing required secrets">> \o missingFrom(1, secrets)

ConnectError == <<"connect error">>

ExecError == <<"exec error">>

UploadError == <<"upload error">>

----------------------------------------------------------------------------
(* Health heuristics of deploy.ts.  A response text is modelled by the set *)
(* of the literals it contains, which is all String.includes reads.        *)

Literals == {"ok", "healthy", "failed", "accepting connections"}

includes(text, literal) == literal \in text

\* the text of `... || echo 'failed'` when the probed command fails
FailedText == {"failed"}

\* the text a service that is up answers with
UpText == [postgres |-> {"accepting connections"}, n8n |-> {"ok"},
           ntfy |-> {"healthy"}, fetcher |-> {"ok"}]

\* ntfyRunning looks for the sentinel alone
serviceRunningStrictNtfy(s, text) ==
    CASE s = "fetcher"  -> includes(text, "ok")
      [] s = "ntfy"     -> ~includes(text, "failed")
      [] s = "n8n"      -> ~includes(text, "failed")
      [] s = "postgres" -> includes(text, "accepting connections")

\* fetcherRunning, ntfyRunning, n8nRunning, postgresRunning
serviceRunning(s, text) ==
    CASE s = "fetcher"  -> includes(text, "ok")
      [] s = "ntfy"     -> includes(text, "healthy") \/ ~includes(text, "failed")
      [] s = "n8n"      -> ~includes(text, "failed")
      [] s = "postgres" -> includes(text, "accepting connections")

\* const dockerInstalled = !dockerVersion.includes("not installed")
dockerInstalledOf(dockerVersion) == ~includes(dockerVersion, "not installed")

\* the order of the four probes
ProbeOrder == <<"fetcher", "ntfy", "n8n", "postgres">>

\* healthy is reported true whatever the probe found
probedServicesAllHealthy(running, ports) ==
    [s \in Services |->
        [running |-> running[s], healthy |-> TRUE,
         url |-> IF s = "postgres" THEN Null ELSE Some(ports[s])]]

\* the services object of a completed probe pass; a url is modelled by its port
probedServices(running, ports) ==
    [s \in Services |->
        [running |-> running[s], healthy |-> running[s],
         url |-> IF s = "postgres" THEN Null ELSE Some(ports[s])]]

\* n8nRunning repeats the test of fetcherRunning
checkRunningN8nOk(s, text) ==
    CASE s = "fetcher"  -> includes(text, "ok")
      [] s = "ntfy"     -> includes(text, "healthy") \/ ~includes(text, "failed")
      [] s = "n8n"      -> includes(text, "ok")
      [] s = "postgres" -> includes(text, "accepting connections")

\* checkVPSServices: fetcherRunning, ntfyRunning, n8nRunning, postgresRunning
checkRunning(s, text) ==
    CASE s = "fetcher"  -> includes(text, "ok")
      [] s = "ntfy"     -> includes(text, "healthy") \/ ~includes(text, "failed")
      [] s = "n8n"      -> ~includes(text, "failed")
      [] s = "postgres" -> includes(text, "accepting connections")

\* the url of ntfy repeats the port of n8n
checkedServicesCopyPaste(running, ports) ==
    [postgres |-> [running |-> running.postgres, healthy |-> running.postgres,
                   url |-> Null],
     n8n      |-> [running |-> running.n8n, healthy |-> running.n8n,
                   url |-> Some(ports.n8n)],
     ntfy     |-> [running |-> running.ntfy, healthy |-> running.ntfy,
                   url |-> Some(ports.n8n)],
     fetcher  |-> [running |-> running.fetcher, healthy |-> running.fetcher,
                   url |-> Some(ports.fetcher)]]

\* the value checkVPSServices returns
checkedServices(running, ports) ==
    [postgres |-> [running |-> running.postgres, healthy |-> running.postgres,
                   url |-> Null],
     n8n      |-> [running |-> running.n8n, healthy |-> running.n8n,
                   url |-> Some(ports.n8n)],
     ntfy     |-> [running |-> running.ntfy, healthy |-> running.ntfy,
                   url |-> Some(ports.ntfy)],
     fetcher  |-> [running |-> running.fetcher, healthy |-> running.fetcher,
                   url |-> Some(ports.fetcher)]]

\* the services object of the failure outcome of deployToVPS
downServices ==
    [s \in Services |-> [running |-> FALSE, healthy |-> FALSE, url |-> Null]]

----------------------------------------------------------------------------
(* The remote host. *)

RootDir == "/opt/rentalmonitor"

EnvPath == "/opt/rentalmonitor/.env"

\* ports the running stack publishes on 127.0.0.1 (postgres publishes none)
PublishedPorts(h) ==
    IF h.stack = Null THEN {}
    ELSE { Val(h.stack)[s] : s \in Services \ {"postgres"} }

\* listeners on the host that are not the stack's, as a scan may see them
ExtPortSets == { {} }

\* docker --version 2>/dev/null || echo 'not installed'
DockerVersions == { {"not installed"}, {"Docker version"} }

\* container_name of the four services of the compose file
StackContainers ==
    { <<"rentalmonitor_", s>> : s \in Services }

\* docker ps -a: the containers of the stack, once it has been started
ContainerNames(h) == IF h.stack = Null THEN {} ELSE StackContainers

\* docker network ls: the network of the compose file
NetworkNames(h) == IF h.stack = Null THEN {} ELSE {"rentalmonitor_net"}

\* docker volume ls: the volumes of the compose file
VolumeNames(h) ==
    IF h.stack = Null THEN {}
    ELSE {"rentalmonitor_postgres_data", "rentalmonitor_n8n_data",
          "rentalmonitor_ntfy_cache", "rentalmonitor_ntfy_data"}

\* the host of the server runs no reverse proxy: nginxCheck, caddyCheck, traefikCheck
HostProxyChecks == << <<>>, <<>>, <<>> >>

\* what the host answers to the probe of service s at the given ports
HostResponses(h, s, ports) ==
    IF h.stack # Null /\ (s = "postgres" \/ Val(h.stack)[s] = ports[s])
    THEN {UpText[s]}
    ELSE {FailedText}

InitHost ==
    [files |-> {}, envFile |-> 0, composePorts |-> Null, stack |-> Null]

----------------------------------------------------------------------------
(* Process state of routes: request slots, the two slots, responses. *)

Req == 1..MaxReq

Kinds == {"preflight", "deploy", "health", "ntfy"}

IdleReq ==
    [kind |-> "none", pc |-> "idle", ports |-> Null, logs |-> <<>>,
     usedPorts |-> {}, dockerInstalled |-> FALSE, containerNames |-> {},
     networkNames |-> {}, volumeNames |-> {},
     proxyChecks |-> <<>>,
     running |-> [s \in Services |-> FALSE]]

\* let deploymentStatus = { status: "idle", message: "Ready to scan VPS" }
InitStatus ==
    [status |-> "idle", message |-> <<"Ready to scan VPS">>,
     lastScan |-> Null, lastDeploy |-> Null, services |-> Null]

\* the literal spreads the record it replaces: { ...deploymentStatus, status, message }
StatusMerged(status, message) ==
    [deploymentStatus EXCEPT !.status = status, !.message = message]

\* an object literal { status, message } : every other member is absent
Status(status, message) ==
    [status |-> status, message |-> message,
     lastScan |-> Null, lastDeploy |-> Null, services |-> Null]

NoResponse == [kind |-> "none", code |-> 0, error |-> Null, result |-> Null]

\* res.status(code).json({ error })
ErrorResponse(kind, code, message) ==
    [kind |-> kind, code |-> code, error |-> Some(message), result |-> Null]

\* res.json(result)
OkResponse(kind, result) ==
    [kind |-> kind, code |-> 200, error |-> Null, result |-> Some(result)]

ServerInit ==
    /\ env = AllSecrets
    /\ received = 0
    /\ lastPreflightResult = Null
    /\ deploymentStatus = InitStatus
    /\ host = InitHost
    /\ openSessions = [k \in Kinds |-> 0]
    /\ req = [r \in Req |-> IdleReq]
    /\ response = NoResponse
    /\ deployedPorts = Null

\* a request takes the lowest slot that is free
FreeSlot(r) ==
    /\ req[r].pc = "idle"
    /\ \A q \in 1..(r - 1) : req[q].pc # "idle"

\* no handler is between two awaits
Quiet == \A r \in Req : req[r].pc = "idle"

\* the server receives a request; a serial caller issues one only after the
\* response to the one before
Admitted ==
    /\ received < MaxReceived
    /\ received' = received + 1
    /\ caller = "serial" => Quiet
    /\ env' \in Envs

TotalOpen == openSessions["preflight"] + openSessions["deploy"]
             + openSessions["health"] + openSessions["ntfy"]

\* connectSSH resolves: the session is open
Opened(kind) == [openSessions EXCEPT ![kind] = @ + 1]

\* the call of client.end() is missing
EndedNot(kind) == openSessions

\* client.end()
Ended(kind) == [openSessions EXCEPT ![kind] = @ - 1]

\* the handler has sent its response: the slot is free again
Finish(r) == [req EXCEPT ![r] = IdleReq]

At(r, kind, pc) == req[r].kind = kind /\ req[r].pc = pc

----------------------------------------------------------------------------
(* POST /api/preflight and runPreflightScan. *)

\* the awaits of runPreflightScan after the connect, in order
ScanOrder == <<"osInfo", "ports", "dockerVersion", "composeVersion",
               "containers", "networks", "volumes", "proxy", "resources">>

\* the three docker probes run whatever the version probe printed
ScanNextUnguarded(pc, dockerInstalled) ==
    CASE pc = "osInfo"         -> "ports"
      [] pc = "ports"          -> "dockerVersion"
      [] pc = "dockerVersion"  -> "composeVersion"
      [] pc = "composeVersion" -> "containers"
      [] pc = "containers"     -> "networks"
      [] pc = "networks"       -> "volumes"
      [] pc = "volumes"        -> "proxy"
      [] pc = "proxy"          -> "resources"
      [] pc = "resources"      -> "return"

\* if (dockerInstalled) { containers, networks, volumes }
ScanNext(pc, dockerInstalled) ==
    CASE pc = "osInfo"         -> "ports"
      [] pc = "ports"          -> "dockerVersion"
      [] pc = "dockerVersion"  -> "composeVersion"
      [] pc = "composeVersion" -> IF dockerInstalled THEN "containers" ELSE "proxy"
      [] pc = "containers"     -> "networks"
      [] pc = "networks"       -> "volumes"
      [] pc = "volumes"        -> "proxy"
      [] pc = "proxy"          -> "resources"
      [] pc = "resources"      -> "return"

\* the catch block drops the stored result of the scan before
PreflightConfigErrorDropsResult ==
    /\ Admitted
    /\ ~configComplete(env')
    /\ deploymentStatus' = Status("error", getSSHConfigError(env'))
    /\ response' = ErrorResponse("preflight", 500, getSSHConfigError(env'))
    /\ lastPreflightResult' = Null
    /\ UNCHANGED <<host, openSessions, req, restVars>>

\* getSSHConfig throws: the catch block of the handler
PreflightConfigError ==
    /\ Admitted
    /\ ~configComplete(env')
    /\ deploymentStatus' = Status("error", getSSHConfigError(env'))
    /\ response' = ErrorResponse("preflight", 500, getSSHConfigError(env'))
    /\ UNCHANGED <<lastPreflightResult, host, openSessions, req, restVars>>

\* the handler up to its first await: status "scanning", connectSSH called
PreflightStart(r) ==
    /\ Admitted
    /\ FreeSlot(r)
    /\ configComplete(env')
    /\ deploymentStatus' = Status("scanning", <<"Running preflight scan...">>)
    /\ req' = [req EXCEPT ![r] = [IdleReq EXCEPT !.kind = "preflight", !.pc = "connect"]]
    /\ response' = NoResponse
    /\ UNCHANGED <<lastPreflightResult, host, openSessions, restVars>>

\* the catch block responds without setting the status
PreflightThrownKeepsStatus(r, message) ==
    /\ UNCHANGED deploymentStatus
    /\ response' = ErrorResponse("preflight", 500, message)
    /\ req' = Finish(r)
    /\ UNCHANGED <<lastPreflightResult, host, env, received, restVars>>

\* the catch block of the handler after runPreflightScan has thrown
PreflightThrown(r, message) ==
    /\ deploymentStatus' = Status("error", message)
    /\ response' = ErrorResponse("preflight", 500, message)
    /\ req' = Finish(r)
    /\ UNCHANGED <<lastPreflightResult, host, env, received, restVars>>

\* await connectSSH(config)
ScanConnect(r) ==
    /\ At(r, "preflight", "connect")
    /\ \/ /\ TotalOpen < MaxSessions
          /\ openSessions' = Opened("preflight")
          /\ req' = [req EXCEPT ![r].pc = "osInfo"]
          /\ response' = NoResponse
          /\ UNCHANGED <<lastPreflightResult, deploymentStatus, host,
                         env, received, restVars>>
       \/ /\ PreflightThrown(r, ConnectError)
          /\ UNCHANGED openSessions

\* an execCommand of the scan rejects: catch { client.end(); throw error }
ScanExecFails(r) ==
    /\ req[r].kind = "preflight"
    /\ req[r].pc \in {ScanOrder[i] : i \in 1..Len(ScanOrder)}
    /\ openSessions' = Ended("preflight")
    /\ PreflightThrown(r, ExecError)

\* an execCommand (or Promise.all of them) of the scan resolves
ScanExec(r) ==
    /\ req[r].kind = "preflight"
    /\ req[r].pc \in {ScanOrder[i] : i \in 1..Len(ScanOrder)} \ {"resources"}
    /\ \E ext \in ExtPortSets, dockerVersion \in DockerVersions :
          req' = [req EXCEPT
              ![r].usedPorts = IF req[r].pc = "ports"
                               THEN ext \cup PublishedPorts(host) ELSE @,
              ![r].dockerInstalled = IF req[r].pc = "dockerVersion"
                                     THEN dockerInstalledOf(dockerVersion) ELSE @,
              ![r].containerNames = IF req[r].pc = "containers"
                                    THEN ContainerNames(host) ELSE @,
              ![r].networkNames = IF req[r].pc = "networks"
                                  THEN NetworkNames(host) ELSE @,
              ![r].volumeNames = IF req[r].pc = "volumes"
                                 THEN VolumeNames(host) ELSE @,
              ![r].proxyChecks = IF req[r].pc = "proxy"
                                 THEN HostProxyChecks ELSE @,
              ![r].pc = ScanNext(req[r].pc,
                                 IF req[r].pc = "dockerVersion"
                                 THEN dockerInstalledOf(dockerVersion)
                                 ELSE req[r].dockerInstalled)]
    /\ response' = NoResponse
    /\ UNCHANGED <<lastPreflightResult, deploymentStatus, host, openSessions,
                   env, received, restVars>>

\* the locals of runPreflightScan the result is built from
ScanFacts(r) ==
    [ports |-> req[r].usedPorts, dockerInstalled |-> req[r].dockerInstalled,
     nginxCheck |-> req[r].proxyChecks[1], caddyCheck |-> req[r].proxyChecks[2],
     traefikCheck |-> req[r].proxyChecks[3],
     containerNames |-> req[r].containerNames,
     networkNames |-> req[r].networkNames, volumeNames |-> req[r].volumeNames]

\* the last await resolves: client.end(), the scan returns and the handler
\* stores the result, sets the status and responds
ScanReturn(r) ==
    /\ At(r, "preflight", "resources")
    /\ LET result == PreflightResult(ScanFacts(r), now)
       IN  /\ lastPreflightResult' = Some(result)
           /\ deploymentStatus' =
                 [Status("idle", <<"Preflight scan completed">>)
                     EXCEPT !.lastScan = Some(result.timestamp)]
           /\ response' = OkResponse("preflight", result)
    /\ openSessions' = Ended("preflight")
    /\ req' = Finish(r)
    /\ UNCHANGED <<host, env, received, restVars>>

----------------------------------------------------------------------------
(* POST /api/deploy and deployToVPS. *)

\* the awaits of deployToVPS after the connect, in order
DeployOrder == <<"mkdir", "compose", "envExample", "envCheck", "envUpload",
                 "dockerfile", "packageJson", "indexJs", "readme",
                 "up", "wait", "ps",
                 "fetcher", "ntfy", "n8n", "postgres">>

\* the steps that are an uploadFile, and the remote path each writes
UploadPath ==
    [compose     |-> "/opt/rentalmonitor/docker-compose.yml",
     envExample  |-> "/opt/rentalmonitor/.env.example",
     envUpload   |-> EnvPath,
     dockerfile  |-> "/opt/rentalmonitor/fetcher/Dockerfile",
     packageJson |-> "/opt/rentalmonitor/fetcher/package.json",
     indexJs     |-> "/opt/rentalmonitor/fetcher/index.js",
     readme      |-> "/opt/rentalmonitor/README.md"]

UploadSteps == DOMAIN UploadPath

ProbeSteps == {ProbeOrder[i] : i \in 1..Len(ProbeOrder)}

\* the steps that are an execCommand
ExecSteps == {"mkdir", "envCheck", "up", "ps"} \cup ProbeSteps

\* the stack is started right after the secrets-file check, before the
\* fetcher files and the reference document are uploaded
DeployNextUpEarly(pc, envMissing) ==
    CASE pc = "mkdir"       -> "compose"
      [] pc = "compose"     -> "envExample"
      [] pc = "envExample"  -> "envCheck"
      [] pc = "envCheck"    -> IF envMissing THEN "envUpload" ELSE "up"
      [] pc = "envUpload"   -> "up"
      [] pc = "dockerfile"  -> "packageJson"
      [] pc = "packageJson" -> "indexJs"
      [] pc = "indexJs"     -> "readme"
      [] pc = "readme"      -> "up"
      [] pc = "up"          -> "wait"
      [] pc = "wait"        -> "ps"
      [] pc = "ps"          -> "fetcher"
      [] pc = "fetcher"     -> "ntfy"
      [] pc = "ntfy"        -> "n8n"
      [] pc = "n8n"         -> "postgres"
      [] pc = "postgres"    -> "return"

\* the step after pc; envMissing is envExists.trim() === "missing"
DeployNext(pc, envMissing) ==
    CASE pc = "mkdir"       -> "compose"
      [] pc = "compose"     -> "envExample"
      [] pc = "envExample"  -> "envCheck"
      [] pc = "envCheck"    -> IF envMissing THEN "envUpload" ELSE "dockerfile"
      [] pc = "envUpload"   -> "dockerfile"
      [] pc = "dockerfile"  -> "packageJson"
      [] pc = "packageJson" -> "indexJs"
      [] pc = "indexJs"     -> "readme"
      [] pc = "readme"      -> "up"
      [] pc = "up"          -> "wait"
      [] pc = "wait"        -> "ps"
      [] pc = "ps"          -> "fetcher"
      [] pc = "fetcher"     -> "ntfy"
      [] pc = "ntfy"        -> "n8n"
      [] pc = "n8n"         -> "postgres"
      [] pc = "postgres"    -> "return"

\* the logs.push calls between the await before step pc and the await of pc
LogBefore(pc, envMissing) ==
    CASE pc = "mkdir"       -> << <<"Connected to VPS">>,
                                  <<"Creating directory structure...">> >>
      [] pc = "compose"     -> << <<"Uploading docker-compose.yml...">> >>
      [] pc = "envExample"  -> << <<"Uploading .env.example...">> >>
      [] pc = "envUpload"   -> << <<"Creating .env with generated secrets...">> >>
      [] pc = "dockerfile"  ->
            (IF envMissing THEN <<>>
             ELSE << <<".env already exists, keeping existing configuration">> >>)
            \o << <<"Uploading fetcher service...">> >>
      [] pc = "readme"      -> << <<"Creating README...">> >>
      [] pc = "up"          -> << <<"Starting Docker Compose stack...">> >>
      [] pc = "wait"        -> << <<"composeOutput">>,
                                  <<"Waiting for services to start...">> >>
      [] pc = "ps"          -> << <<"Checking service health...">> >>
      [] pc = "fetcher"     -> << <<"psOutput">> >>
      [] OTHER              -> <<>>

\* the value deployToVPS returns from its try block
DeploySuccess(logs, running, ports) ==
    [success  |-> TRUE,
     message  |-> <<"Deployment completed successfully">>,
     logs     |-> logs,
     services |-> probedServices(running, ports)]

\* the catch block does not push the error to the logs
DeployFailureUnlogged(logs, message) ==
    [success  |-> FALSE,
     message  |-> message,
     logs     |-> logs,
     services |-> downServices]

\* the value deployToVPS returns from its catch block
DeployFailure(logs, message) ==
    [success  |-> FALSE,
     message  |-> message,
     logs     |-> Append(logs, <<"Error">> \o message),
     services |-> downServices]

\* the handler responds without storing the outcome in the status
DeployReturnedKeepsStatus(r, result) ==
    /\ UNCHANGED deploymentStatus
    /\ response' = OkResponse("deploy", result)
    /\ req' = Finish(r)

\* the handler after deployToVPS has returned result
DeployReturned(r, result) ==
    /\ deploymentStatus' =
          [status     |-> IF result.success THEN "success" ELSE "error",
           message    |-> result.message,
           lastScan   |-> Null,
           lastDeploy |-> Some(now),
           services   |-> Some(result.services)]
    /\ response' = OkResponse("deploy", result)
    /\ req' = Finish(r)

\* the handler checks only that a scan result is stored
deployRejectionNoReadiness(last) ==
    IF last = Null THEN Some(<<"Run preflight scan first">>) ELSE Null

\* the precondition checks of the handler: which of them rejects, if any
deployRejection(last) ==
    IF last = Null THEN Some(<<"Run preflight scan first">>)
    ELSE IF ~Val(last).safePlan.readyToDeploy
         THEN Some(<<"VPS is not ready for deployment. Docker may not be installed.">>)
         ELSE Null

\* return res.status(400).json(...)
DeployReject ==
    /\ Admitted
    /\ deployRejection(lastPreflightResult) # Null
    /\ response' = ErrorResponse("deploy", 400, Val(deployRejection(lastPreflightResult)))
    /\ UNCHANGED <<lastPreflightResult, deploymentStatus, host, openSessions, req, restVars>>

\* getSSHConfig throws: the catch block of the handler
DeployConfigError ==
    /\ Admitted
    /\ deployRejection(lastPreflightResult) = Null
    /\ ~configComplete(env')
    /\ deploymentStatus' = Status("error", getSSHConfigError(env'))
    /\ response' = ErrorResponse("deploy", 500, getSSHConfigError(env'))
    /\ UNCHANGED <<lastPreflightResult, host, openSessions, req, restVars>>

\* the handler up to its first await: status "deploying", deployToVPS called
\* with the stored plan's ports, connectSSH called
DeployStart(r) ==
    /\ Admitted
    /\ FreeSlot(r)
    /\ deployRejection(lastPreflightResult) = Null
    /\ configComplete(env')
    /\ deploymentStatus' = Status("deploying", <<"Deploying services to VPS...">>)
    /\ req' = [req EXCEPT ![r] =
                  [IdleReq EXCEPT !.kind = "deploy", !.pc = "connect",
                                  !.ports = Some(Val(lastPreflightResult).safePlan.portsToUse)]]
    /\ response' = NoResponse
    /\ UNCHANGED <<lastPreflightResult, host, openSessions, restVars>>

\* await connectSSH(config), outside the try block of deployToVPS
DeployConnect(r) ==
    /\ At(r, "deploy", "connect")
    /\ \/ /\ TotalOpen < MaxSessions
          /\ openSessions' = Opened("deploy")
          /\ req' = [req EXCEPT ![r].pc = "mkdir", ![r].logs = LogBefore("mkdir", FALSE)]
          /\ response' = NoResponse
          /\ UNCHANGED <<lastPreflightResult, deploymentStatus, host,
                         env, received, restVars>>
       \/ /\ deploymentStatus' = Status("error", ConnectError)
          /\ response' = ErrorResponse("deploy", 500, ConnectError)
          /\ req' = Finish(r)
          /\ UNCHANGED <<lastPreflightResult, host, openSessions, env, received, restVars>>

\* the step's await has resolved: the pushes up to the next await
Advance(r, envMissing) ==
    LET next == DeployNext(req[r].pc, envMissing)
    IN  [req EXCEPT ![r].pc = next,
                    ![r].logs = @ \o LogBefore(next, envMissing)]

\* an upload or a command of the deploy rejects: the catch block of
\* deployToVPS closes the session and returns the failure outcome
DeployStepFails(r) ==
    /\ req[r].kind = "deploy"
    /\ req[r].pc \in UploadSteps \cup ExecSteps
    /\ openSessions' = Ended("deploy")
    /\ DeployReturned(r, DeployFailure(req[r].logs,
            IF req[r].pc \in UploadSteps THEN UploadError
            ELSE ExecError))
    /\ UNCHANGED <<lastPreflightResult, host, env, received, restVars>>

\* mkdir -p /opt/rentalmonitor/{fetcher,logs}
DeployMkdir(r) ==
    /\ At(r, "deploy", "mkdir")
    /\ host' = [host EXCEPT !.files = @ \cup {RootDir}]
    /\ req' = Advance(r, FALSE)
    /\ response' = NoResponse
    /\ UNCHANGED <<lastPreflightResult, deploymentStatus, openSessions,
                   env, received, restVars>>

\* test -f /opt/rentalmonitor/.env && echo 'exists' || echo 'missing'
envExistsOutput(h) == IF h.envFile # 0 THEN "exists" ELSE "missing"

\* the secrets file is uploaded whatever the check printed
envMissingAlways(envExists) == TRUE

\* if (envExists.trim() === "missing")
envMissing(envExists) == envExists = "missing"

\* the secrets-file check resolves
DeployEnvCheck(r) ==
    /\ At(r, "deploy", "envCheck")
    /\ req' = Advance(r, envMissing(envExistsOutput(host)))
    /\ response' = NoResponse
    /\ UNCHANGED <<lastPreflightResult, deploymentStatus, host, openSessions,
                   env, received, restVars>>

\* the manifest is generated from the plan stored when the upload resolves
DeployUploadStoredPlan(r) ==
    /\ req[r].kind = "deploy"
    /\ req[r].pc \in UploadSteps
    /\ host' = [host EXCEPT
          !.files = @ \cup {UploadPath[req[r].pc]},
          !.composePorts = IF req[r].pc = "compose"
                           THEN Some(Val(lastPreflightResult).safePlan.portsToUse)
                           ELSE @,
          !.envFile = IF req[r].pc = "envUpload" THEN @ + 1 ELSE @]
    /\ req' = Advance(r, TRUE)
    /\ response' = NoResponse
    /\ UNCHANGED <<lastPreflightResult, deploymentStatus, openSessions,
                   env, received, restVars>>

\* an uploadFile resolves; generateEnvFile() draws fresh random secrets, so
\* every upload of the secrets file has a content of its own
DeployUpload(r) ==
    /\ req[r].kind = "deploy"
    /\ req[r].pc \in UploadSteps
    /\ host' = [host EXCEPT
          !.files = @ \cup {UploadPath[req[r].pc]},
          !.composePorts = IF req[r].pc = "compose" THEN req[r].ports ELSE @,
          !.envFile = IF req[r].pc = "envUpload" THEN @ + 1 ELSE @]
    /\ req' = Advance(r, TRUE)
    /\ response' = NoResponse
    /\ UNCHANGED <<lastPreflightResult, deploymentStatus, openSessions,
                   env, received, restVars>>

\* cd /opt/rentalmonitor && docker compose up -d --build: the command resolves
\* whatever its exit status; the stack runs the manifest that is on the host
DeployUp(r) ==
    /\ At(r, "deploy", "up")
    /\ \E started \in BOOLEAN :
          host' = [host EXCEPT !.stack = IF started THEN host.composePorts ELSE @]
    /\ req' = Advance(r, FALSE)
    /\ response' = NoResponse
    /\ UNCHANGED <<lastPreflightResult, deploymentStatus, openSessions,
                   env, received, restVars>>

\* setTimeout(resolve, 10000), and docker compose ps
DeployWaitPs(r) ==
    /\ req[r].kind = "deploy"
    /\ req[r].pc \in {"wait", "ps"}
    /\ req' = Advance(r, FALSE)
    /\ response' = NoResponse
    /\ UNCHANGED <<lastPreflightResult, deploymentStatus, host, openSessions,
                   env, received, restVars>>

\* one of the first three health probes resolves
DeployProbe(r) ==
    /\ req[r].kind = "deploy"
    /\ req[r].pc \in ProbeSteps \ {"postgres"}
    /\ \E text \in HostResponses(host, req[r].pc, Val(req[r].ports)) :
          req' = [Advance(r, FALSE) EXCEPT
                     ![r].running[req[r].pc] = serviceRunning(req[r].pc, text)]
    /\ response' = NoResponse
    /\ UNCHANGED <<lastPreflightResult, deploymentStatus, host, openSessions,
                   env, received, restVars>>

\* the last probe resolves: client.end(), deployToVPS returns its success
\* outcome and the handler stores it and responds
DeployFinish(r) ==
    /\ At(r, "deploy", "postgres")
    /\ \E text \in HostResponses(host, "postgres", Val(req[r].ports)) :
          DeployReturned(r, DeploySuccess(req[r].logs,
              [req[r].running EXCEPT !["postgres"] = serviceRunning("postgres", text)],
              Val(req[r].ports)))
    /\ openSessions' = Ended("deploy")
    /\ deployedPorts' = req[r].ports
    /\ UNCHANGED <<lastPreflightResult, host, env, received, idleVars>>

----------------------------------------------------------------------------
(* GET /api/health-check and checkVPSServices. *)

HealthReject ==
    /\ Admitted
    /\ lastPreflightResult = Null
    /\ response' = ErrorResponse("health", 400, <<"Run preflight scan first">>)
    /\ UNCHANGED <<lastPreflightResult, deploymentStatus, host, openSessions, req, restVars>>

\* getSSHConfig throws: the catch block only responds
HealthConfigError ==
    /\ Admitted
    /\ lastPreflightResult # Null
    /\ ~configComplete(env')
    /\ response' = ErrorResponse("health", 500, getSSHConfigError(env'))
    /\ UNCHANGED <<lastPreflightResult, deploymentStatus, host, openSessions, req, restVars>>

HealthStart(r) ==
    /\ Admitted
    /\ FreeSlot(r)
    /\ lastPreflightResult # Null
    /\ configComplete(env')
    /\ req' = [req EXCEPT ![r] =
                  [IdleReq EXCEPT !.kind = "health", !.pc = "connect",
                                  !.ports = Some(Val(lastPreflightResult).safePlan.portsToUse)]]
    /\ response' = NoResponse
    /\ UNCHANGED <<lastPreflightResult, deploymentStatus, host, openSessions,
                   restVars>>

\* the catch block sets the status as the catch blocks of scan and deploy do
HealthThrownSetsStatus(r, message) ==
    /\ deploymentStatus' = Status("error", message)
    /\ response' = ErrorResponse("health", 500, message)
    /\ req' = Finish(r)
    /\ UNCHANGED <<lastPreflightResult, host, env, received, restVars>>

\* the catch block of the handler after checkVPSServices has thrown
HealthThrown(r, message) ==
    /\ response' = ErrorResponse("health", 500, message)
    /\ req' = Finish(r)
    /\ UNCHANGED <<lastPreflightResult, deploymentStatus, host, env, received, restVars>>

HealthConnect(r) ==
    /\ At(r, "health", "connect")
    /\ \/ /\ TotalOpen < MaxSessions
          /\ openSessions' = Opened("health")
          /\ req' = [req EXCEPT ![r].pc = "fetcher"]
          /\ response' = NoResponse
          /\ UNCHANGED <<lastPreflightResult, deploymentStatus, host,
                         env, received, restVars>>
       \/ /\ HealthThrown(r, ConnectError)
          /\ UNCHANGED openSessions

\* a probe rejects: catch { client.end(); throw error }
HealthProbeFails(r) ==
    /\ req[r].kind = "health"
    /\ req[r].pc \in ProbeSteps
    /\ openSessions' = Ended("health")
    /\ HealthThrown(r, ExecError)

HealthProbe(r) ==
    /\ req[r].kind = "health"
    /\ req[r].pc \in ProbeSteps \ {"postgres"}
    /\ \E text \in HostResponses(host, req[r].pc, Val(req[r].ports)) :
          req' = [req EXCEPT
                     ![r].running[req[r].pc] = checkRunning(req[r].pc, text),
                     ![r].pc = DeployNext(req[r].pc, FALSE)]
    /\ response' = NoResponse
    /\ UNCHANGED <<lastPreflightResult, deploymentStatus, host, openSessions,
                   env, received, restVars>>

\* the last probe resolves: client.end(), the services are returned and the
\* handler merges them into the status: { ...deploymentStatus, services }
HealthFinish(r) ==
    /\ At(r, "health", "postgres")
    /\ \E text \in HostResponses(host, "postgres", Val(req[r].ports)) :
          LET services == checkedServices(
                  [req[r].running EXCEPT !["postgres"] = checkRunning("postgres", text)],
                  Val(req[r].ports))
          IN  /\ deploymentStatus' = [deploymentStatus EXCEPT !.services = Some(services)]
              /\ response' = OkResponse("health", [services |-> services])
    /\ openSessions' = Ended("health")
    /\ req' = Finish(r)
    /\ UNCHANGED <<lastPreflightResult, host, env, received, restVars>>

----------------------------------------------------------------------------
(* POST /api/test-ntfy.  The handler builds its own ssh2 client; the       *)
(* dynamic import before the connect touches no state and is not a step.   *)

NtfyReject ==
    /\ Admitted
    /\ lastPreflightResult = Null
    /\ response' = ErrorResponse("ntfy", 400, <<"Run preflight scan first">>)
    /\ UNCHANGED <<lastPreflightResult, deploymentStatus, host, openSessions, req, restVars>>

NtfyConfigError ==
    /\ Admitted
    /\ lastPreflightResult # Null
    /\ ~configComplete(env')
    /\ response' = ErrorResponse("ntfy", 500, getSSHConfigError(env'))
    /\ UNCHANGED <<lastPreflightResult, deploymentStatus, host, openSessions, req, restVars>>

NtfyStart(r) ==
    /\ Admitted
    /\ FreeSlot(r)
    /\ lastPreflightResult # Null
    /\ configComplete(env')
    /\ req' = [req EXCEPT ![r] = [IdleReq EXCEPT !.kind = "ntfy", !.pc = "connect"]]
    /\ response' = NoResponse
    /\ UNCHANGED <<lastPreflightResult, deploymentStatus, host, openSessions,
                   restVars>>

\* the promise around client.connect settles
NtfyConnect(r) ==
    /\ At(r, "ntfy", "connect")
    /\ \/ /\ TotalOpen < MaxSessions
          /\ openSessions' = Opened("ntfy")
          /\ req' = [req EXCEPT ![r].pc = "exec"]
          /\ response' = NoResponse
       \/ /\ response' = ErrorResponse("ntfy", 500, ConnectError)
          /\ req' = Finish(r)
          /\ UNCHANGED openSessions
    /\ UNCHANGED <<lastPreflightResult, deploymentStatus, host, env, received, restVars>>

\* client.exec calls back with an error: the catch block only responds
NtfyExecFails(r) ==
    /\ At(r, "ntfy", "exec")
    /\ UNCHANGED openSessions
    /\ response' = ErrorResponse("ntfy", 500, ExecError)
    /\ req' = Finish(r)
    /\ UNCHANGED <<lastPreflightResult, deploymentStatus, host, env, received, restVars>>

\* the curl has run: client.end() and the response
NtfyExec(r) ==
    /\ At(r, "ntfy", "exec")
    /\ openSessions' = Ended("ntfy")
    /\ response' = OkResponse("ntfy", [success |-> TRUE])
    /\ req' = Finish(r)
    /\ UNCHANGED <<lastPreflightResult, deploymentStatus, host, env, received, restVars>>

----------------------------------------------------------------------------
(* GET /api/status and GET /api/proxy-config: handlers without an await. *)

\* Boolean(process.env.VPS_PERSONAL_IP && ... && process.env.VPS_SSH_PRIVATE_KEY)
secretsConfigured(secrets) ==
    Secrets[1] \in secrets /\ Secrets[2] \in secrets /\ Secrets[3] \in secrets

StatusGet ==
    /\ Admitted
    /\ response' = OkResponse("status",
            [deploymentStatus    |-> deploymentStatus,
             lastPreflightResult |-> lastPreflightResult,
             secretsConfigured   |-> secretsConfigured(env')])
    /\ UNCHANGED <<lastPreflightResult, deploymentStatus, host, openSessions, req, restVars>>

ProxyConfigReject ==
    /\ Admitted
    /\ lastPreflightResult = Null
    /\ response' = ErrorResponse("proxy", 400, <<"Run preflight scan first">>)
    /\ UNCHANGED <<lastPreflightResult, deploymentStatus, host, openSessions, req, restVars>>

ProxyConfigGet ==
    /\ Admitted
    /\ lastPreflightResult # Null
    /\ response' = OkResponse("proxy",
            [proxyType     |-> Val(lastPreflightResult).reverseProxy.type,
             configSnippet |-> Val(lastPreflightResult).safePlan.proxyConfigSnippet])
    /\ UNCHANGED <<lastPreflightResult, deploymentStatus, host, openSessions, req, restVars>>

----------------------------------------------------------------------------
(* The server: requests arrive at any time and their handlers interleave.  *)

\* a request arrives and its handler runs up to its first await or its return
Arrive ==
    \/ PreflightConfigError
    \/ DeployReject
    \/ DeployConfigError
    \/ HealthReject
    \/ HealthConfigError
    \/ NtfyReject
    \/ NtfyConfigError
    \/ StatusGet
    \/ ProxyConfigReject
    \/ ProxyConfigGet
    \/ \E r \in Req : PreflightStart(r)
    \/ \E r \in Req : DeployStart(r)
    \/ \E r \in Req : HealthStart(r)
    \/ \E r \in Req : NtfyStart(r)

\* an await of a handler settles
Settle ==
    \E r \in Req :
        \/ ScanConnect(r)
        \/ ScanExecFails(r)
        \/ ScanExec(r)
        \/ ScanReturn(r)
        \/ DeployConnect(r)
        \/ DeployStepFails(r)
        \/ DeployMkdir(r)
        \/ DeployEnvCheck(r)
        \/ DeployUpload(r)
        \/ DeployUp(r)
        \/ DeployWaitPs(r)
        \/ DeployProbe(r)
        \/ DeployFinish(r)
        \/ HealthConnect(r)
        \/ HealthProbeFails(r)
        \/ HealthProbe(r)
        \/ HealthFinish(r)
        \/ NtfyConnect(r)
        \/ NtfyExecFails(r)
        \/ NtfyExec(r)

PlanIdle ==
    /\ planFacts = PortFacts({}, FALSE)
    /\ planResult = Null

ProbeIdle ==
    /\ probeInput = [ports |-> PreferredPort, texts |-> [s \in Services |-> {}]]
    /\ probeResult = Null

ParseIdle ==
    /\ parseInput = [lead |-> <<>>, lines |-> <<>>, trail |-> <<>>]
    /\ parseResult = Null

\* milliseconds since the epoch when the server starts
StartTime == 1000

\* let lastGitHubSync: number = 0
SyncIdle ==
    /\ clock = StartTime
    /\ lastGitHubSync = 0
    /\ lastAdmitted = Null

HarnessIdle == PlanIdle /\ ProbeIdle /\ ParseIdle /\ SyncIdle

\* the server after registerRoutes, with a caller of either discipline: one
\* that issues requests at any time, or one that waits for each response
Init ==
    /\ ServerInit
    /\ HarnessIdle
    /\ caller \in {"any", "serial"}

Next == Arrive \/ Settle

Spec == Init /\ [][Next]_vars

\* the server with a caller that issues requests one at a time
SerialInit ==
    /\ ServerInit
    /\ HarnessIdle
    /\ caller = "serial"

SerialSpec == SerialInit /\ [][Next]_vars

----------------------------------------------------------------------------
(* The planner applied to the facts of the family. *)

PlanInit ==
    /\ ServerInit
    /\ caller = "any"
    /\ planFacts \in PlanFactsFamily \cup ScanFactsFamily
    /\ planResult = Null
    /\ ProbeIdle
    /\ ParseIdle
    /\ SyncIdle

\* the planner runs on the facts
ApplyPlan ==
    /\ planResult = Null
    /\ planResult' = Some(PreflightResult(planFacts, now))
    /\ UNCHANGED <<planFacts, caller, serverVars, probeInput, probeResult,
                   parseInput, parseResult, deployedPorts, syncVars>>

PlanSpec == PlanInit /\ [][ApplyPlan]_vars

----------------------------------------------------------------------------
(* The two probers applied to the same ports and response texts. *)

\* plans a scan may have stored
ProbePorts == { PreferredPort, [PreferredPort EXCEPT !.n8n = 5679, !.fetcher = 4001] }

\* every response text: every set of the literals the probers look for
ProbeInputs ==
    { [ports |-> ports, texts |-> texts] :
        ports \in ProbePorts, texts \in [Services -> SUBSET Literals] }

\* the services of a deployToVPS whose probes got the texts
deployedServices(texts, ports) ==
    probedServices([s \in Services |-> serviceRunning(s, texts[s])], ports)

\* the services of a checkVPSServices whose probes got the texts
checkVPSServices(texts, ports) ==
    checkedServices([s \in Services |-> checkRunning(s, texts[s])], ports)

ProbeInit ==
    /\ ServerInit
    /\ caller = "any"
    /\ PlanIdle
    /\ ParseIdle
    /\ SyncIdle
    /\ probeInput \in ProbeInputs
    /\ probeResult = Null

\* both probers run on the input
ApplyProbe ==
    /\ probeResult = Null
    /\ probeResult' =
          Some([deploy |-> deployedServices(probeInput.texts, probeInput.ports),
                check  |-> checkVPSServices(probeInput.texts, probeInput.ports)])
    /\ UNCHANGED <<probeInput, planFacts, planResult, caller, serverVars,
                   parseInput, parseResult, deployedPorts, syncVars>>

ProbeSpec == ProbeInit /\ [][ApplyProbe]_vars

----------------------------------------------------------------------------
(* Properties of the planner, checked under PlanSpec. *)

Planned == planResult # Null

PlannedPorts == Val(planResult).safePlan.portsToUse

ProbedPorts(s) == PreferredPort[s] .. (PreferredPort[s] + ProbeSpan - 1)

FallbackPort(s) == PreferredPort[s] + FallbackOffset

\* C1 as stated: none of the four assigned ports is among the listening
\* ports the scan reported.
C1_AssignedPortsNotListening ==
    Planned => \A s \in Services : PlannedPorts[s] \notin planFacts.ports

\* C1 as amended: an assigned port is among the listening ports only if it
\* is the fallback preferred+1000, taken because preferred .. preferred+99
\* were all listening; the fallback is returned without being looked up.
C1_ListeningOnlyAsFallback ==
    Planned =>
        \A s \in Services :
            PlannedPorts[s] \in planFacts.ports =>
                /\ PlannedPorts[s] = FallbackPort(s)
                /\ ProbedPorts(s) \subseteq planFacts.ports

\* one service took a busy fallback port while another took a free probed port
C1_Witness ==
    /\ Planned
    /\ \E s \in Services :
          /\ PlannedPorts[s] = FallbackPort(s)
          /\ PlannedPorts[s] \in planFacts.ports
    /\ \E s \in Services :
          /\ PlannedPorts[s] \in ProbedPorts(s) \ {PreferredPort[s]}
          /\ PlannedPorts[s] \notin planFacts.ports

\* C2: the four assigned ports are pairwise distinct, fallbacks included.
C2_AssignedPortsDistinct ==
    Planned =>
        \A s, t \in Services : s # t => PlannedPorts[s] # PlannedPorts[t]

\* two services took their fallback, the others a probed port
C2_Witness ==
    /\ Planned
    /\ PlannedPorts["postgres"] = FallbackPort("postgres")
    /\ PlannedPorts["n8n"] = FallbackPort("n8n")
    /\ PlannedPorts["ntfy"] # PreferredPort["ntfy"]
    /\ PlannedPorts["fetcher"] = PreferredPort["fetcher"]

\* the free ports among the 99 probed after the preferred one
FreeAfter(s) == (ProbedPorts(s) \ {PreferredPort[s]}) \ planFacts.ports

\* C3: findSafePort returns preferred when it is not used; otherwise the
\* smallest unused port of preferred+1 .. preferred+99; and preferred+1000
\* exactly when all of preferred .. preferred+99 are used.  With no busy port
\* the plan is the default table, and with 5432..5531 busy postgres gets 6432.
C3_FindSafePort ==
    Planned =>
        /\ \A s \in Services :
              /\ PreferredPort[s] \notin planFacts.ports
                    => PlannedPorts[s] = PreferredPort[s]
              /\ (PreferredPort[s] \in planFacts.ports /\ FreeAfter(s) # {})
                    => /\ PlannedPorts[s] \in FreeAfter(s)
                       /\ \A q \in FreeAfter(s) : PlannedPorts[s] <= q
              /\ PlannedPorts[s] = FallbackPort(s)
                    <=> ProbedPorts(s) \subseteq planFacts.ports
        /\ planFacts.ports = {}
              => PlannedPorts = [postgres |-> 5432, n8n |-> 5678,
                                 ntfy |-> 8080, fetcher |-> 3001]
        /\ (5432..5531) \subseteq planFacts.ports
              => /\ PlannedPorts["postgres"] = 6432
                 /\ PlannedPorts["postgres"] \notin 5432..5531

\* postgres fell back to 6432, n8n took the last probed port, ntfy the
\* port after a busy preferred one, fetcher its preferred port
C3_Witness ==
    /\ Planned
    /\ (5432..5531) \subseteq planFacts.ports
    /\ PlannedPorts["postgres"] = 6432
    /\ PlannedPorts["n8n"] = 5678 + 99
    /\ PlannedPorts["ntfy"] = 8081
    /\ PlannedPorts["fetcher"] = 3001

----------------------------------------------------------------------------
(* The parser applied to listening-ports tables.  A line of the family is  *)
(* its text together with what a reader sees in it: the number of its      *)
(* white-space separated fields and the number after the last colon of its *)
(* fourth field, if that field ends with a colon and a number.             *)

TableLines ==
    { \* State Recv-Q Send-Q Local Address:Port Peer Address:Port Process
      [text   |-> <<"State", " ", "Recv-Q", " ", "Send-Q", " ", "Local", " ",
                    "Address", ":", "Port", " ", "Peer", " ", "Address", ":",
                    "Port", " ", "Process">>,
       fields |-> 8, port |-> Null],
      \* LISTEN 0 128 0.0.0.0:22 0.0.0.0:* users:(("sshd"))
      [text   |-> <<"LISTEN", " ", "0", " ", "128", " ", "0.0.0.0", ":", "22",
                    " ", "0.0.0.0", ":", "*", " ", "users", ":", "((\"sshd\"))">>,
       fields |-> 6, port |-> Some(22)],
      \* LISTEN  0  511  [::]:80  [::]:*
      [text   |-> <<"LISTEN", " ", " ", "0", " ", " ", "511", " ", " ",
                    "[", ":", ":", "]", ":", "80", " ", " ",
                    "[", ":", ":", "]", ":", "*">>,
       fields |-> 5, port |-> Some(80)],
      \* LISTEN 0 128
      [text   |-> <<"LISTEN", " ", "0", " ", "128">>,
       fields |-> 3, port |-> Null],
      \* 0 128 0.0.0.0:3001
      [text   |-> <<"0", " ", "128", " ", "0.0.0.0", ":", "3001">>,
       fields |-> 3, port |-> Null],
      \* an empty line
      [text   |-> <<>>, fields |-> 0, port |-> Null],
      \*   tcp 0 0 127.0.0.1:5432 0.0.0.0:* LISTEN 12/postgres
      [text   |-> <<" ", " ", "tcp", " ", "0", " ", "0", " ", "127.0.0.1", ":",
                    "5432", " ", "0.0.0.0", ":", "*", " ", "LISTEN", " ",
                    "12", "/postgres", " ">>,
       fields |-> 7, port |-> Some(5432)],
      \* tcp 0 0 *:* 0.0.0.0:443 LISTEN
      [text   |-> <<"tcp", " ", "0", " ", "0", " ", "*", ":", "*", " ",
                    "0.0.0.0", ":", "443", " ", "LISTEN">>,
       fields |-> 6, port |-> Null],
      \* LISTEN 0 4096 127.0.0.1:5678
      [text   |-> <<"LISTEN", " ", "0", " ", "4096", " ", "127.0.0.1", ":", "5678">>,
       fields |-> 4, port |-> Some(5678)] }

\* lines of a table: at most this many
MaxLines == 3

\* a table starts with a line that is not blank; white space may surround it
ParseInputs ==
    { [lead |-> lead, lines |-> lines, trail |-> trail] :
        lead \in {<<>>, <<" ", "\n">>},
        lines \in { l \in UNION { [1..n -> TableLines] : n \in 0..MaxLines } :
                      l # <<>> => l[1].fields > 0 },
        trail \in {<<>>, <<"\n">>} }

RECURSIVE joinLines(_)
\* the text of the lines, a "\n" between each two
joinLines(lines) ==
    IF lines = <<>> THEN <<>>
    ELSE IF Len(lines) = 1 THEN lines[1].text
    ELSE lines[1].text \o <<"\n">> \o joinLines(Tail(lines))

\* portsRaw: what execCommand resolves with
portsRaw(input) == input.lead \o joinLines(input.lines) \o input.trail

ParseInit ==
    /\ ServerInit
    /\ caller = "any"
    /\ PlanIdle
    /\ ProbeIdle
    /\ SyncIdle
    /\ parseInput \in ParseInputs
    /\ parseResult = Null

\* const ports = parseListeningPorts(portsRaw)
ApplyParse ==
    /\ parseResult = Null
    /\ parseResult' = Some(parseListeningPorts(portsRaw(parseInput)))
    /\ UNCHANGED <<parseInput, planFacts, planResult, probeInput, probeResult,
                   caller, serverVars, deployedPorts, syncVars>>

ParseSpec == ParseInit /\ [][ApplyParse]_vars

----------------------------------------------------------------------------
(* POST /api/github/sync behind rateLimitGitHubSync.  syncToGitHub is an   *)
(* await of the handler: it resolves or it rejects.                        *)

\* const SYNC_COOLDOWN_MS = 10 * 60 * 1000
SYNC_COOLDOWN_MS == 10 * 60 * 1000

\* the clock stops here
MaxClock == StartTime + 2 * SYNC_COOLDOWN_MS

\* time that passes between two steps of the server, in milliseconds
TickSteps == {299999, 300000, 600000}

\* lastGitHubSync > 0 && timeSinceLastSync < SYNC_COOLDOWN_MS
rateLimited(last, time) == last > 0 /\ time - last < SYNC_COOLDOWN_MS

\* Math.ceil((SYNC_COOLDOWN_MS - timeSinceLastSync) / 1000)
waitSeconds(last, time) == (SYNC_COOLDOWN_MS - (time - last) + 999) \div 1000

\* a sync request arrives
SyncArrives ==
    /\ received < MaxReceived
    /\ received' = received + 1
    /\ UNCHANGED <<env, lastPreflightResult, deploymentStatus, host, openSessions,
                   harnessVars, deployedPorts, clock>>

\* the rate limiter responds 429 with the seconds to wait
SyncRateLimited ==
    /\ SyncArrives
    /\ rateLimited(lastGitHubSync, clock)
    /\ response' = ErrorResponse("sync", 429,
            <<"Rate limited", waitSeconds(lastGitHubSync, clock)>>)
    /\ UNCHANGED <<req, lastGitHubSync, lastAdmitted>>

\* the rate limiter calls next(): the handler runs up to its await
SyncStart(r) ==
    /\ SyncArrives
    /\ FreeSlot(r)
    /\ ~rateLimited(lastGitHubSync, clock)
    /\ req' = [req EXCEPT ![r] = [IdleReq EXCEPT !.kind = "sync", !.pc = "syncToGitHub"]]
    /\ lastAdmitted' = Some(clock)
    /\ response' = NoResponse
    /\ UNCHANGED lastGitHubSync

\* await syncToGitHub() resolves: the timestamp is updated
SyncDone(r) ==
    /\ At(r, "sync", "syncToGitHub")
    /\ lastGitHubSync' = clock
    /\ response' = OkResponse("sync", [success |-> TRUE])
    /\ req' = Finish(r)
    /\ UNCHANGED <<env, received, lastPreflightResult, deploymentStatus, host,
                   openSessions, harnessVars, deployedPorts, clock, lastAdmitted>>

\* await syncToGitHub() rejects: the catch block only responds
SyncFails(r) ==
    /\ At(r, "sync", "syncToGitHub")
    /\ response' = ErrorResponse("sync", 500, <<"sync failed">>)
    /\ req' = Finish(r)
    /\ UNCHANGED <<env, received, lastPreflightResult, deploymentStatus, host,
                   openSessions, harnessVars, deployedPorts, syncVars>>

\* time passes
Tick ==
    /\ \E d \in TickSteps :
          /\ clock + d <= MaxClock
          /\ clock' = clock + d
    /\ response' = NoResponse
    /\ UNCHANGED <<env, received, lastPreflightResult, deploymentStatus, host,
                   openSessions, req, harnessVars, deployedPorts,
                   lastGitHubSync, lastAdmitted>>

SyncInit ==
    /\ ServerInit
    /\ caller = "any"
    /\ PlanIdle
    /\ ProbeIdle
    /\ ParseIdle
    /\ SyncIdle

SyncNext ==
    \/ SyncRateLimited
    \/ \E r \in Req : SyncStart(r)
    \/ \E r \in Req : SyncDone(r)
    \/ \E r \in Req : SyncFails(r)
    \/ Tick

SyncSpec == SyncInit /\ [][SyncNext]_vars

----------------------------------------------------------------------------
(* Properties of the server, checked under Spec unless said otherwise. *)

\* the step is the arrival of a request of the given kind
Arrived(kind) ==
    /\ received' # received
    /\ \/ response'.kind = kind
       \/ \E r \in Req : req[r].kind = "none" /\ req'[r].kind = kind

InLog(entry, logs) == \E i \in 1..Len(logs) : logs[i] = entry

\* the last response is the outcome of a deployToVPS that failed
DeployFailed ==
    /\ response.kind = "deploy"
    /\ response.code = 200
    /\ ~Val(response.result).success

\* C4: a deploy request is rejected whenever no scan result is stored or the
\* stored plan is not ready to deploy; no session is opened, nothing is
\* uploaded and the deployment status is left as it was.
C4_UnreadyDeployRejected ==
    [][ ( /\ Arrived("deploy")
          /\ \/ lastPreflightResult = Null
             \/ ~Val(lastPreflightResult).safePlan.readyToDeploy )
        => /\ response'.kind = "deploy"
           /\ response'.code = 400
           /\ UNCHANGED <<deploymentStatus, host, openSessions, req,
                          lastPreflightResult>> ]_vars

\* a deploy was rejected against a stored plan that is not ready
C4_Witness ==
    /\ response.kind = "deploy"
    /\ response.code = 400
    /\ lastPreflightResult # Null
    /\ ~Val(lastPreflightResult).safePlan.readyToDeploy
    /\ ~Val(lastPreflightResult).docker.installed

\* C5, under SerialSpec: once the secrets file exists on the host no deploy
\* uploads to its path, its content stays what it was over every later deploy.
C5_SecretsFileKept ==
    [][ host.envFile # 0 => host.envFile' = host.envFile ]_vars

\* a deploy that found the secrets file in place has run to its end
C5_Witness ==
    /\ response.kind = "deploy"
    /\ response.code = 200
    /\ Val(response.result).success
    /\ InLog(<<".env already exists, keeping existing configuration">>,
             Val(response.result).logs)
    /\ host.envFile = 1

\* C6: a deploy step whose upload or command fails ends the deploy in that
\* step: no further step runs, the session is closed, the outcome has
\* success = false, its log ends with the error and all four services are
\* reported down, also when the stack was started before.
C6_FailedStepEndsDeploy ==
    [][ \A r \in Req :
          ( /\ req[r].kind = "deploy"
            /\ req[r].pc \in UploadSteps \cup ExecSteps
            /\ req'[r] # req[r] )
          => \/ /\ req'[r].kind = "deploy"
                /\ req'[r].pc = DeployNext(req[r].pc, req'[r].pc = "envUpload")
             \/ /\ req[r].pc = "postgres"
                /\ req'[r] = IdleReq
                /\ response'.kind = "deploy"
                /\ Val(response'.result).success
             \/ /\ req'[r] = IdleReq
                /\ response'.kind = "deploy"
                /\ response'.code = 200
                /\ LET result == Val(response'.result)
                   IN  /\ ~result.success
                       /\ result.message \in {ExecError, UploadError}
                       /\ result.logs = Append(req[r].logs, <<"Error">> \o result.message)
                       /\ \A s \in Services :
                             /\ ~result.services[s].running
                             /\ ~result.services[s].healthy
                /\ openSessions'["deploy"] = openSessions["deploy"] - 1 ]_vars

\* a deploy failed after it had started the stack
C6_Witness ==
    /\ DeployFailed
    /\ InLog(<<"composeOutput">>, Val(response.result).logs)
    /\ host.stack # Null
    /\ openSessions["deploy"] = 0

\* C7: once an operation has finished, no session it opened is still open:
\* the open sessions of each kind are those of the requests in flight that
\* are past their connect.
C7_SessionsClosed ==
    \A k \in Kinds :
        openSessions[k] =
            Cardinality({ r \in Req : req[r].kind = k /\ req[r].pc # "connect" })

\* C8: when a scan or a deploy ends with a configuration failure or a
\* session-level failure, the status is 'error' with the failure message.
C8_FailureSetsErrorStatus ==
    /\ (response.kind \in {"preflight", "deploy"} /\ response.code = 500)
          => /\ deploymentStatus.status = "error"
             /\ deploymentStatus.message = Val(response.error)
    /\ DeployFailed
          => /\ deploymentStatus.status = "error"
             /\ deploymentStatus.message = Val(response.result).message

\* a deploy ended with a configuration failure after a scan had succeeded
C8_Witness ==
    /\ response.kind = "deploy"
    /\ response.code = 500
    /\ Val(response.error)[1] = "Missing required secrets"
    /\ deploymentStatus.status = "error"
    /\ lastPreflightResult # Null

\* C9: a scan, deploy or health-check that finds a credential absent fails
\* at once: no connection is attempted, no handler is left waiting, and the
\* request does not set the status to 'scanning' or 'deploying'.
C9_MissingCredentialFailsFirst ==
    [][ \A k \in {"preflight", "deploy", "health"} :
          (Arrived(k) /\ env' # AllSecrets)
          => /\ response'.kind = k
             /\ response'.code \in {400, 500}
             /\ req' = req
             /\ openSessions' = openSessions
             /\ \/ deploymentStatus' = deploymentStatus
                \/ deploymentStatus'.status = "error" ]_vars

\* a health-check found the private key absent after a scan had succeeded
C9_Witness ==
    /\ response.kind = "health"
    /\ response.code = 500
    /\ response.error = Some(<<"Missing required secrets", "VPS_SSH_PRIVATE_KEY">>)
    /\ env = AllSecrets \ {"VPS_SSH_PRIVATE_KEY"}
    /\ lastPreflightResult # Null

\* the scans and deploys in flight
InFlight == { r \in Req : req[r].kind \in {"preflight", "deploy"} }

\* C10 as stated: at most one scan or deploy is in flight.
C10_AtMostOneInFlight == Cardinality(InFlight) <= 1

\* C10 as amended: the server does not serialize scans and deploys; at most
\* one is in flight, and at most one session of theirs is open, only when the
\* caller issues each request after the response to the one before.
C10_OneInFlightForSerialCaller ==
    caller = "serial" =>
        /\ Cardinality(InFlight) <= 1
        /\ openSessions["preflight"] + openSessions["deploy"] <= Cardinality(InFlight)

\* a serial caller's deploy holds its session after an earlier scan has ended
C10_Witness ==
    /\ caller = "serial"
    /\ lastPreflightResult # Null
    /\ \E r \in Req : req[r].kind = "deploy" /\ req[r].pc = "up"
    /\ openSessions["deploy"] = 1
    /\ openSessions["preflight"] = 0

\* the step is a step of a request of the given kind: its arrival or the
\* settling of one of its awaits
StepOf(kind) ==
    \/ Arrived(kind)
    \/ \E r \in Req : req[r].kind = kind /\ req'[r] # req[r]

\* the fields of the status record other than services
StatusCore(ds) == <<ds.status, ds.message, ds.lastScan, ds.lastDeploy>>

\* C11: the status starts 'idle'; its status, message, lastScan and lastDeploy
\* change only in steps of a scan or a deploy; a health-check changes the
\* record only when it succeeds, and then only the services field; the
\* status, proxy-config and test-notification operations change no field.
C11_StatusFrame ==
    [][ /\ received = 0 => deploymentStatus.status = "idle"
        /\ StatusCore(deploymentStatus') # StatusCore(deploymentStatus)
              => StepOf("preflight") \/ StepOf("deploy")
        /\ StepOf("health")
              => /\ StatusCore(deploymentStatus') = StatusCore(deploymentStatus)
                 /\ deploymentStatus' # deploymentStatus
                       => /\ response'.kind = "health"
                          /\ response'.code = 200
                          /\ deploymentStatus'.services
                                = Some(Val(response'.result).services)
                 /\ response'.code \in {400, 500}
                       => deploymentStatus' = deploymentStatus
        /\ \A k \in {"status", "proxy", "ntfy"} :
              StepOf(k) => deploymentStatus' = deploymentStatus ]_vars

\* a health-check has succeeded after a scan: the services are in the record
\* next to what the scan left there
C11_Witness ==
    /\ response.kind = "health"
    /\ response.code = 200
    /\ deploymentStatus.status = "idle"
    /\ deploymentStatus.lastScan # Null
    /\ deploymentStatus.services = Some(Val(response.result).services)

\* C12: when a scan or a deploy finishes, the status record holds that
\* operation's outcome and nothing else: after a successful scan the status
\* 'idle', the message and the scan's timestamp as lastScan; after a deploy
\* has returned its success or error, its message, lastDeploy and its
\* services; after a thrown error the status 'error' and the message; every
\* other member is absent.
C12_StatusReplaced ==
    /\ (response.kind = "preflight" /\ response.code = 200)
          => deploymentStatus =
                [status     |-> "idle",
                 message    |-> <<"Preflight scan completed">>,
                 lastScan   |-> Some(Val(response.result).timestamp),
                 lastDeploy |-> Null,
                 services   |-> Null]
    /\ (response.kind = "deploy" /\ response.code = 200)
          => /\ deploymentStatus.lastDeploy # Null
             /\ [deploymentStatus EXCEPT !.lastDeploy = Null] =
                   [status     |-> IF Val(response.result).success
                                   THEN "success" ELSE "error",
                    message    |-> Val(response.result).message,
                    lastScan   |-> Null,
                    lastDeploy |-> Null,
                    services   |-> Some(Val(response.result).services)]
    /\ (response.kind \in {"preflight", "deploy"} /\ response.code = 500)
          => deploymentStatus =
                [status     |-> "error",
                 message    |-> Val(response.error),
                 lastScan   |-> Null,
                 lastDeploy |-> Null,
                 services   |-> Null]

\* a scan has succeeded after a deploy of the same serial caller had started
\* the stack and returned: nothing of the deploy is left in the record
C12_Witness ==
    /\ caller = "serial"
    /\ response.kind = "preflight"
    /\ response.code = 200
    /\ host.stack # Null
    /\ deploymentStatus.lastDeploy = Null
    /\ deploymentStatus.services = Null

----------------------------------------------------------------------------
(* Properties of the health probers, checked under ProbeSpec. *)

Probed == probeResult # Null

\* the flags a prober reports for a service
Flags(prober, s) ==
    <<Val(probeResult)[prober][s].running, Val(probeResult)[prober][s].healthy>>

\* C13 as stated: ntfy is reported healthy if and only if its response text
\* does not contain 'failed'.
C13_NtfyHealthyIffNotFailed ==
    Probed =>
        \A prober \in {"deploy", "check"} :
            Flags(prober, "ntfy")[2] <=> "failed" \notin probeInput.texts["ntfy"]

\* C13 as amended: ntfy is reported healthy if and only if its response text
\* contains 'healthy' or does not contain 'failed'; the body 'failed' gives
\* not-healthy and the empty body gives healthy.
C13_NtfyHealthyOrNotFailed ==
    Probed =>
        \A prober \in {"deploy", "check"} :
            LET text == probeInput.texts["ntfy"]
            IN  /\ Flags(prober, "ntfy")[2]
                      <=> ("healthy" \in text \/ "failed" \notin text)
                /\ text = {"failed"} => ~Flags(prober, "ntfy")[2]
                /\ text = {} => Flags(prober, "ntfy")[2]

\* both probers have reported ntfy healthy for a text that contains 'failed'
C13_Witness ==
    /\ Probed
    /\ probeInput.texts["ntfy"] = {"healthy", "failed"}
    /\ Flags("deploy", "ntfy") = <<TRUE, TRUE>>
    /\ Flags("check", "ntfy") = <<TRUE, TRUE>>

\* C14: for every response text, both flags of the fetcher are true exactly
\* when the text contains 'ok', those of n8n exactly when it does not contain
\* 'failed', and those of postgres exactly when it contains 'accepting
\* connections'.
C14_OtherHealthFlags ==
    Probed =>
        \A prober \in {"deploy", "check"} :
            LET texts == probeInput.texts
                both(b) == <<b, b>>
            IN  /\ Flags(prober, "fetcher") = both("ok" \in texts["fetcher"])
                /\ Flags(prober, "n8n") = both("failed" \notin texts["n8n"])
                /\ Flags(prober, "postgres")
                      = both("accepting connections" \in texts["postgres"])

\* the health prober has judged texts in which the literals of the other
\* services occur: an 'ok' with a 'failed' and an 'accepting connections'
C14_Witness ==
    /\ Probed
    /\ probeInput.texts["fetcher"] = {"ok", "failed"}
    /\ probeInput.texts["n8n"] = {"ok", "accepting connections"}
    /\ probeInput.texts["postgres"] = {"failed", "accepting connections"}
    /\ \A s \in {"fetcher", "n8n", "postgres"} : Flags("check", s) = <<TRUE, TRUE>>

\* C15: for the same ports and the same four response texts checkVPSServices
\* returns the per-service status (running, healthy, url) that a successful
\* deployToVPS puts in its outcome.
C15_ProbersAgree ==
    Probed => Val(probeResult).check = Val(probeResult).deploy

\* both probers have judged texts that put some services up and some down,
\* for a plan that moved two ports
C15_Witness ==
    /\ Probed
    /\ probeInput.ports # PreferredPort
    /\ probeInput.texts = [s \in Services |->
                              IF s \in {"ntfy", "postgres"} THEN {"failed"} ELSE {"ok"}]
    /\ Val(probeResult).check["n8n"].url = Some(5679)
    /\ Val(probeResult).check["n8n"].running
    /\ ~Val(probeResult).deploy["postgres"].running

----------------------------------------------------------------------------
(* Properties of the plan beyond its ports, checked under PlanSpec. *)

Plan == Val(planResult).safePlan

ProxyKind == Val(planResult).reverseProxy.type

\* C16: readyToDeploy is true exactly when the runtime is reported installed,
\* whatever the busy ports, the containers and the proxy.
C16_ReadyIffInstalled ==
    Planned =>
        /\ Plan.readyToDeploy <=> planFacts.dockerInstalled
        /\ Plan.readyToDeploy <=> Val(planResult).docker.installed

\* a plan is ready although ports 80 and 443 are bound, containers of n8n and
\* postgres exist and a proxy is detected
C16_Witness ==
    /\ Planned
    /\ Plan.readyToDeploy
    /\ {80, 443} \subseteq planFacts.ports
    /\ Len(Plan.warnings) = 4
    /\ ProxyKind = "caddy"

\* occurrences of a word in a line, and in the lines of a snippet from line i
\* on, with or without its comment lines
InLine(line, word) == Cardinality({ i \in DOMAIN line : line[i] = word })

\* a line of a template that is a comment
CommentLine(line) == line # <<>> /\ line[1] = "#"

RECURSIVE CountFrom(_, _, _, _)
CountFrom(i, snippet, word, withComments) ==
    IF i > Len(snippet) THEN 0
    ELSE (IF withComments \/ ~CommentLine(snippet[i])
          THEN InLine(snippet[i], word) ELSE 0)
         + CountFrom(i + 1, snippet, word, withComments)

Count(snippet, word) == CountFrom(1, snippet, word, TRUE)

\* the facts of C17: nginx detected, no busy ports, the runtime installed
NginxOnFreeHost ==
    /\ Planned
    /\ ProxyKind = "nginx"
    /\ planFacts.ports = {}
    /\ planFacts.dockerInstalled

\* C17 as stated: for these facts the plan is ready and its snippet contains
\* no 'reverse_proxy' and 'proxy_pass' exactly three times.
C17_NginxThreeProxyPass ==
    NginxOnFreeHost =>
        /\ Plan.readyToDeploy
        /\ Plan.proxyConfigSnippet # Null
        /\ Count(Val(Plan.proxyConfigSnippet), "reverse_proxy") = 0
        /\ Count(Val(Plan.proxyConfigSnippet), "proxy_pass") = 3

\* C17 as amended: for these facts the plan is ready and its snippet contains
\* no 'reverse_proxy'; it contains 'proxy_pass' three times outside comment
\* lines, once for each of n8n, ntfy and fetcher with that service's port,
\* and twice more in the commented subdomain alternative: five times in all.
C17_NginxProxyPassDirectives ==
    NginxOnFreeHost =>
        /\ Plan.readyToDeploy
        /\ Plan.proxyConfigSnippet # Null
        /\ LET snippet == Val(Plan.proxyConfigSnippet)
           IN  /\ Count(snippet, "reverse_proxy") = 0
               /\ CountFrom(1, snippet, "proxy_pass", FALSE) = 3
               /\ Count(snippet, "proxy_pass") = 5
               /\ \A s \in {"n8n", "ntfy", "fetcher"} :
                     \E i \in DOMAIN snippet :
                         snippet[i] = <<"proxy_pass", "http://127.0.0.1:",
                                         ToString(Plan.portsToUse[s]), "/;">>

\* the plan for a free host with docker and nginx carries the nginx snippet
C17_Witness ==
    /\ NginxOnFreeHost
    /\ Plan.proxyConfigSnippet # Null
    /\ Plan.portsToUse = PreferredPort
    /\ <<"proxy_pass", "http://127.0.0.1:", "5678", "/;">>
          \in { Val(Plan.proxyConfigSnippet)[i] : i \in DOMAIN Val(Plan.proxyConfigSnippet) }

\* C18: the plan carries a snippet exactly when the proxy kind is nginx or
\* caddy, the nginx template for nginx and the caddy template for caddy;
\* reuseExistingProxy is true exactly when the kind is not none.
C18_SnippetIffSupportedProxy ==
    Planned =>
        /\ Plan.proxyConfigSnippet # Null <=> ProxyKind \in {"nginx", "caddy"}
        /\ ProxyKind = "nginx" =>
              /\ Count(Val(Plan.proxyConfigSnippet), "proxy_pass") > 0
              /\ Count(Val(Plan.proxyConfigSnippet), "reverse_proxy") = 0
        /\ ProxyKind = "caddy" =>
              /\ Count(Val(Plan.proxyConfigSnippet), "reverse_proxy") > 0
              /\ Count(Val(Plan.proxyConfigSnippet), "proxy_pass") = 0
        /\ Plan.reuseExistingProxy <=> ProxyKind # "none"
        /\ Val(planResult).reverseProxy.detected <=> ProxyKind # "none"

\* traefik is detected: the proxy is reused and the plan has no snippet
C18_Witness ==
    /\ Planned
    /\ ProxyKind = "traefik"
    /\ Plan.reuseExistingProxy
    /\ Plan.proxyConfigSnippet = Null

\* an output with a character that is not white space
NonBlank(text) == \E i \in DOMAIN text : text[i] \notin {" ", "\n"}

\* C19: the proxy kind is the first positive probe in the order nginx, caddy,
\* traefik, and none exactly when the three outputs are blank.
C19_FirstPositiveProbe ==
    Planned =>
        LET n == NonBlank(planFacts.nginxCheck)
            c == NonBlank(planFacts.caddyCheck)
            t == NonBlank(planFacts.traefikCheck)
        IN  /\ ProxyKind \in {"nginx", "caddy", "traefik", "none"}
            /\ ProxyKind = "nginx" <=> n
            /\ ProxyKind = "caddy" <=> ~n /\ c
            /\ ProxyKind = "traefik" <=> ~n /\ ~c /\ t
            /\ ProxyKind = "none" <=> ~n /\ ~c /\ ~t

\* caddy is detected: the nginx output is white space only, and traefik's
\* output is not blank either
C19_Witness ==
    /\ Planned
    /\ planFacts.nginxCheck = <<" ", "\n">>
    /\ NonBlank(planFacts.caddyCheck)
    /\ NonBlank(planFacts.traefikCheck)
    /\ ProxyKind = "caddy"

\* the place of a warning in the order of the plan's warnings: port 80 bound,
\* port 443 bound, an n8n container exists, a postgres container exists
WarningRank(w) ==
    CASE w = <<"Port 80 is in use - will bind to localhost only">>        -> 1
      [] w = <<"Port 443 is in use - will bind to localhost only">>       -> 2
      [] w = <<"n8n already exists - will use different container name">> -> 3
      [] w = <<"Postgres already exists - consider reusing">>             -> 4
      [] OTHER                                                            -> 0

Warned(rank) == \E i \in DOMAIN Plan.warnings : WarningRank(Plan.warnings[i]) = rank

\* the item of the three-item order a warning belongs to: ports 80/443 bound,
\* an n8n container exists, a postgres container exists
WarningItem(w) ==
    CASE WarningRank(w) \in {1, 2} -> 1
      [] WarningRank(w) = 3       -> 2
      [] WarningRank(w) = 4       -> 3
      [] OTHER                    -> 0

\* C20 as stated: the warning list is a subsequence of the three-item order
\* [ports 80/443 bound, n8n container exists, postgres container exists]:
\* every entry is one of the three, each at most once and in that order, and
\* each is present exactly when its condition holds.
C20_WarningsOfThreeItems ==
    Planned =>
        /\ \A i \in DOMAIN Plan.warnings : WarningItem(Plan.warnings[i]) # 0
        /\ \A i, j \in DOMAIN Plan.warnings :
              i < j => WarningItem(Plan.warnings[i]) < WarningItem(Plan.warnings[j])
        /\ (Warned(1) \/ Warned(2)) <=> (80 \in planFacts.ports \/ 443 \in planFacts.ports)
        /\ Warned(3) <=> Val(planResult).existingServices.n8n
        /\ Warned(4) <=> Val(planResult).existingServices.postgres

\* C20 as amended: the warning list is a subsequence of the fixed four-item
\* order [port 80 bound, port 443 bound, n8n container exists, postgres
\* container exists]: every entry is one of these, no entry comes before one
\* that precedes it in the order, and each is present exactly when its
\* condition holds.
C20_WarningsInOrder ==
    Planned =>
        /\ \A i \in DOMAIN Plan.warnings : WarningRank(Plan.warnings[i]) # 0
        /\ \A i, j \in DOMAIN Plan.warnings :
              i < j => WarningRank(Plan.warnings[i]) < WarningRank(Plan.warnings[j])
        /\ Warned(1) <=> 80 \in planFacts.ports
        /\ Warned(2) <=> 443 \in planFacts.ports
        /\ Warned(3) <=> Val(planResult).existingServices.n8n
        /\ Warned(4) <=> Val(planResult).existingServices.postgres
        /\ Val(planResult).existingServices.n8n
              <=> (planFacts.dockerInstalled /\ <<"N8N">> \in planFacts.containerNames)
        /\ Val(planResult).existingServices.postgres
              <=> (planFacts.dockerInstalled
                   /\ <<"db-", "postgresql">> \in planFacts.containerNames)

\* a plan with both port warnings and the postgres warning but not the n8n one
C20_Witness ==
    /\ Planned
    /\ Len(Plan.warnings) = 3
    /\ WarningRank(Plan.warnings[1]) = 1
    /\ WarningRank(Plan.warnings[2]) = 2
    /\ WarningRank(Plan.warnings[3]) = 4

----------------------------------------------------------------------------
(* Properties of the order of steps, checked under Spec. *)

\* the position of a step in the order of deployToVPS
Rank(pc) == CHOOSE i \in 1..Len(DeployOrder) : DeployOrder[i] = pc

\* the paths every deploy uploads to, whatever the secrets-file check printed
FixedUploads == { UploadPath[step] : step \in UploadSteps \ {"envUpload"} }

\* C21: the steps of a deploy run one after another in the fixed order:
\* directory creation, manifest, example env, secrets-file check (and upload
\* only if the file is missing), fetcher files, reference document, stack
\* start, wait, stack status, four probes; when the stack-start command is
\* issued every file is on the host, and when the wait, the status query or
\* a probe is issued the stack-start command has returned.
C21_StepsInOrder ==
    [][ \A r \in Req :
          (req[r].kind = "deploy" /\ req[r].pc # "connect")
          => /\ (req'[r] # req[r] /\ req'[r].kind = "deploy")
                   => \/ /\ Rank(req'[r].pc) = Rank(req[r].pc) + 1
                         /\ req'[r].pc = "envUpload" => host.envFile = 0
                      \/ /\ req[r].pc = "envCheck"
                         /\ req'[r].pc = "dockerfile"
                         /\ host.envFile # 0
             /\ Rank(req[r].pc) >= Rank("up")
                   => /\ RootDir \in host.files
                      /\ FixedUploads \subseteq host.files
                      /\ host.envFile # 0
             /\ Rank(req[r].pc) > Rank("up")
                   => InLog(<<"composeOutput">>, req[r].logs) ]_vars

\* a deploy that uploaded the secrets file has run through every step
C21_Witness ==
    /\ response.kind = "deploy"
    /\ response.code = 200
    /\ Val(response.result).success
    /\ InLog(<<"Creating .env with generated secrets...">>, Val(response.result).logs)
    /\ FixedUploads \cup {EnvPath} \subseteq host.files

\* the last response is the result of a scan that succeeded
Scanned == response.kind = "preflight" /\ response.code = 200

\* C22: when the container runtime is reported not installed, the scan does
\* not run the container-list, network-list and volume-list probes, and its
\* result has empty containers, networks and volumes and every
\* existing-service flag false, whatever the host holds.
C22_NoRuntimeNoContainerProbes ==
    /\ \A r \in Req :
          (req[r].kind = "preflight" /\ req[r].pc \in {"containers", "networks", "volumes"})
          => req[r].dockerInstalled
    /\ (Scanned /\ ~Val(response.result).docker.installed)
          => /\ Val(response.result).docker.containers = {}
             /\ Val(response.result).docker.networks = {}
             /\ Val(response.result).docker.volumes = {}
             /\ \A k \in {"n8n", "postgres", "ntfy", "playwright"} :
                   ~Val(response.result).existingServices[k]

\* a scan found no runtime on a host where the stack had been started
C22_Witness ==
    /\ Scanned
    /\ ~Val(response.result).docker.installed
    /\ host.stack # Null
    /\ ContainerNames(host) # {}

\* the ports argument of the deploy in slot r
DeployPorts(r) == Val(req[r].ports)

\* the stored plan is the plan of the stored result's own facts
StoredWhole ==
    lastPreflightResult # Null =>
        LET last == Val(lastPreflightResult)
        IN  /\ \A s \in Services :
                  last.safePlan.portsToUse[s] = findSafePort(PreferredPort[s], last.ports)
            /\ last.safePlan.readyToDeploy = last.docker.installed
            /\ last.safePlan.reuseExistingProxy = last.reverseProxy.detected

\* C23: the ports of a deploy are the portsToUse of the plan that is stored
\* when the request is accepted; they stay the same through the deploy, the
\* manifest it uploads and the urls it reports carry them, also when a scan
\* stores another plan meanwhile; a successful scan replaces the stored
\* result with its own result as a whole.
C23_DeployAppliesStoredPlan ==
    [][ /\ \A r \in Req :
              /\ (req[r].kind = "none" /\ req'[r].kind = "deploy")
                    => req'[r].ports = Some(Val(lastPreflightResult).safePlan.portsToUse)
              /\ (req[r].kind = "deploy" /\ req'[r].kind = "deploy")
                    => req'[r].ports = req[r].ports
              /\ (At(r, "deploy", "compose") /\ req'[r].pc = "envExample")
                    => host'.composePorts = Some(DeployPorts(r))
              /\ (At(r, "deploy", "postgres") /\ req'[r] # req[r]
                     /\ Val(response'.result).success)
                    => \A s \in Services \ {"postgres"} :
                          Val(response'.result).services[s].url = Some(DeployPorts(r)[s])
        /\ lastPreflightResult' # lastPreflightResult
              => /\ response'.kind = "preflight"
                 /\ response'.code = 200
                 /\ lastPreflightResult' = response'.result
        /\ StoredWhole ]_vars

\* a deploy uploads its manifest after a scan has stored another plan than
\* the one the deploy was accepted with
C23_Witness ==
    \E r \in Req :
        /\ At(r, "deploy", "envExample")
        /\ lastPreflightResult # Null
        /\ DeployPorts(r) # Val(lastPreflightResult).safePlan.portsToUse
        /\ host.composePorts = Some(DeployPorts(r))

----------------------------------------------------------------------------
(* Properties of the parser, checked under ParseSpec. *)

Parsed == parseResult # Null

RECURSIVE ExpectedPorts(_)
\* the ports a reader takes from the lines: one for each line of four or
\* more fields whose fourth field ends with a colon and a number
ExpectedPorts(lines) ==
    IF lines = <<>> THEN <<>>
    ELSE (IF Head(lines).fields >= 4 /\ Head(lines).port # Null
          THEN <<Val(Head(lines).port)>> ELSE <<>>)
         \o ExpectedPorts(Tail(lines))

\* C24: parsing a listening-ports table always returns: the first line of
\* the table (white space around the table aside) is skipped as header,
\* every later line of fewer than four fields or whose local-address field
\* does not end with a colon and digits is skipped, and every other line
\* gives one entry with that number as port, in the order of the lines.
C24_ParseSkipsMalformedLines ==
    Parsed =>
        LET entries == Val(parseResult)
        IN  /\ [i \in DOMAIN entries |-> entries[i].port]
                  = (IF parseInput.lines = <<>> THEN <<>>
                     ELSE ExpectedPorts(Tail(parseInput.lines)))
            /\ \A i \in DOMAIN entries : entries[i].state = "LISTEN"

\* a table with a short line between its header and a well-formed line
C24_Witness ==
    /\ Parsed
    /\ Len(parseInput.lines) = 3
    /\ parseInput.lines[1].fields = 8
    /\ parseInput.lines[2].fields = 3
    /\ parseInput.lines[3].port = Some(5432)
    /\ Len(Val(parseResult)) = 1
    /\ Val(parseResult)[1].port = 5432

----------------------------------------------------------------------------
(* Properties of overlapping requests, checked under Spec. *)

\* C25: under any interleaving of deploys against the same host the secrets
\* file is uploaded at most once in total: once written it is not
\* overwritten by another deploy.
C25_SecretsUploadedOnce == host.envFile <= 1

\* C26, under SerialSpec: after a successful deploy with ports P, with the
\* stack running on P, every later health-check probes the ports P, also
\* when scans of the host have run in between.
C26_HealthProbesDeployedPorts ==
    [][ \A r \in Req :
          ( /\ req[r].kind = "none"
            /\ req'[r].kind = "health"
            /\ deployedPorts # Null
            /\ host.stack = deployedPorts )
          => req'[r].ports = deployedPorts ]_vars

\* the values of the status field of deploymentStatusSchema
StatusValues == {"idle", "scanning", "deploying", "success", "error"}

\* C27: in every reachable state, also with overlapping requests: a status
\* 'scanning' means a scan is in flight and a status 'deploying' means a
\* deploy is in flight, so with no scan or deploy in flight the status is
\* one of idle, success, error.
C27_BusyStatusHasOperation ==
    /\ deploymentStatus.status \in StatusValues
    /\ deploymentStatus.status = "scanning"
          => \E r \in Req : req[r].kind = "preflight"
    /\ deploymentStatus.status = "deploying"
          => \E r \in Req : req[r].kind = "deploy"
    /\ InFlight = {}
          => deploymentStatus.status \in {"idle", "success", "error"}

\* a scan has started while a deploy is in flight, after an earlier deploy
\* had succeeded: the status is that of the scan
C27_Witness ==
    /\ \E r, q \in Req : req[r].kind = "preflight" /\ req[q].kind = "deploy"
    /\ deploymentStatus.status = "scanning"
    /\ deployedPorts # Null

\* C28: the stored scan result changes only when a scan completes
\* successfully, and then to that scan's result; a failed scan, a deploy
\* (successful, failed or rejected) and a health-check leave it unchanged;
\* so a deploy that arrives with complete credentials while a ready plan is
\* stored is accepted with that plan's ports, whatever the status says.
C28_StoredResultFrame ==
    [][ /\ lastPreflightResult' # lastPreflightResult
              => /\ response'.kind = "preflight"
                 /\ response'.code = 200
                 /\ lastPreflightResult' = response'.result
        /\ (response'.kind = "preflight" /\ response'.code = 500)
              => lastPreflightResult' = lastPreflightResult
        /\ (StepOf("deploy") \/ StepOf("health"))
              => lastPreflightResult' = lastPreflightResult
        /\ ( /\ Arrived("deploy")
              /\ lastPreflightResult # Null
              /\ Val(lastPreflightResult).safePlan.readyToDeploy
              /\ env' = AllSecrets )
              => \E r \in Req :
                    /\ req[r].kind = "none"
                    /\ req'[r].kind = "deploy"
                    /\ req'[r].ports = Some(Val(lastPreflightResult).safePlan.portsToUse)
                    /\ deploymentStatus'.status = "deploying" ]_vars

\* a re-scan has failed, the status is 'error', and the ready plan of the
\* scan before is still stored for a deploy to come
C28_Witness ==
    /\ response.kind = "preflight"
    /\ response.code = 500
    /\ deploymentStatus.status = "error"
    /\ lastPreflightResult # Null
    /\ Val(lastPreflightResult).safePlan.readyToDeploy
    /\ received < MaxReceived

----------------------------------------------------------------------------
(* Properties of the sync rate limiter, checked under SyncSpec. *)

\* C29: at most one sync request is admitted within any 10 minutes: a sync
\* request that arrives less than 10 minutes after the rate limiter let one
\* pass is rejected with 429, also while that sync is still running and
\* after it has failed.
C29_OneSyncPerWindow ==
    [][ ( /\ received' # received
          /\ lastAdmitted # Null
          /\ clock - Val(lastAdmitted) < SYNC_COOLDOWN_MS )
        => /\ response'.kind = "sync"
           /\ response'.code = 429
           /\ req' = req ]_vars

----------------------------------------------------------------------------
(* Properties of the per-service status records, checked under Spec. *)

\* the services that are reached over a port of the plan
WithUrl == Services \ {"postgres"}

\* running equals healthy for each service, and postgres has no url
Consistent(services) ==
    /\ \A s \in Services : services[s].running = services[s].healthy
    /\ services["postgres"].url = Null

\* the record of a completed probe pass: n8n, ntfy and fetcher have a url
FromProbePass(services) == \A s \in WithUrl : services[s].url # Null

\* the record of a failure outcome: no url, and every flag false
FromFailure(services) ==
    /\ \A s \in WithUrl : services[s].url = Null
    /\ \A s \in Services : ~services[s].running

\* C30: in every per-service record a deploy or a health-check returns and
\* in every services value stored in the status, running equals healthy for
\* each of the four services; n8n, ntfy and fetcher have a url exactly when
\* the record comes from a completed probe pass: in the outcome of a deploy
\* that succeeded and in the result of a health-check, never in the failure
\* outcome of a deploy; a stored value is one or the other.
C30_ServiceRecords ==
    /\ (response.kind = "deploy" /\ response.code = 200)
          => LET result == Val(response.result)
             IN  /\ Consistent(result.services)
                 /\ result.success => FromProbePass(result.services)
                 /\ ~result.success => FromFailure(result.services)
    /\ (response.kind = "health" /\ response.code = 200)
          => /\ Consistent(Val(response.result).services)
             /\ FromProbePass(Val(response.result).services)
    /\ deploymentStatus.services # Null
          => /\ Consistent(Val(deploymentStatus.services))
             /\ \/ FromProbePass(Val(deploymentStatus.services))
                \/ FromFailure(Val(deploymentStatus.services))
             /\ deploymentStatus.status = "success"
                   => FromProbePass(Val(deploymentStatus.services))

\* the record of a health-check is stored next to the error status of a
\* deploy that failed before: it has the urls, and a probe of it failed
C30_Witness ==
    /\ response.kind = "health"
    /\ response.code = 200
    /\ deploymentStatus.status = "error"
    /\ deploymentStatus.lastDeploy # Null
    /\ deploymentStatus.services = Some(Val(response.result).services)
    /\ FromProbePass(Val(deploymentStatus.services))
    /\ ~Val(deploymentStatus.services)["fetcher"].running

====
